---- MODULE Spec2Model ----
(***************************************************************************)
(* MeshGeometry of trivalibs_core (geometry/mesh_geometry_3d/mod.rs): an   *)
(* indexed mesh builder with position dedup, per-section face lists,       *)
(* vertex -> face back-references, swap-remove deletion, triangulation and *)
(* face-normal generation.                                                 *)
(*                                                                         *)
(* Conventions.  Rust indices are 0-based and kept 0-based here; the       *)
(* element with Rust index i of a Vec modelled by the sequence s is        *)
(* s[i + 1].  Option<T> is a sequence of length <= 1: <<>> is None and     *)
(* <<x>> is Some(x).  A panic leaves the state as the code had mutated it  *)
(* up to the panic and sets panicked; no operation runs after a panic.     *)
(***************************************************************************)
EXTENDS Integers, Sequences, FiniteSets, TLC

VARIABLES
    vertices,        \* Vec<MeshVertex<V>>
    faces,           \* BTreeMap<usize, Vec<Face<V>>>: a function on the present section ids
    next_index,      \* usize
    vertex_indices,  \* HashMap<VertIdx3f, usize>: a function on the present keys
    panicked,        \* TRUE once an operation has panicked
    last,            \* the most recent call and its arguments
    ops,             \* number of calls made so far
    inputs,          \* the positions given to the add_face calls that returned
    geometry_data,   \* a BufferedGeometryData: attributes and indices
    call,            \* the locals of a running to_buffered_geometry call
    painter          \* the Painter: its surface configuration, textures and layers

vars == <<vertices, faces, next_index, vertex_indices, panicked, last, ops, inputs,
          geometry_data, call, painter>>

\* The variables of the mesh geometry and those of the rendering layer.
mesh_vars == <<vertices, faces, next_index, vertex_indices, inputs>>

rendering_vars == <<geometry_data, call, painter>>

---------------------------------------------------------------------------
\* Bounds of the model.

\* add_face3 / add_face4 are called only while the mesh holds fewer faces.
MaxFaces == 2

\* Number of calls in a run.
MaxOps == 4

\* The longest list of face indices handed to calculate_vertex_normal.
MaxIndices == 2

---------------------------------------------------------------------------
\* Option<T>.

None == <<>>

Some(x) == <<x>>

is_some(o) == o # <<>>

is_none(o) == o = <<>>

unwrap(o) == o[1]

unwrap_or(o, d) == IF o = <<>> THEN d ELSE o[1]

---------------------------------------------------------------------------
\* glam::Vec3 over the integers.  A vector that went through normalize() is
\* the record [num |-> c, den2 |-> n]: the vector c / sqrt(n), c reduced by
\* the gcd of its components; den2 = 0 is the NaN vector normalize() returns
\* for the zero vector.

vsub(a, b) == <<a[1] - b[1], a[2] - b[2], a[3] - b[3]>>

dot(a, b) == a[1] * b[1] + a[2] * b[2] + a[3] * b[3]

cross(a, b) == <<a[2] * b[3] - a[3] * b[2],
                 a[3] * b[1] - a[1] * b[3],
                 a[1] * b[2] - a[2] * b[1]>>

Abs(x) == IF x < 0 THEN -x ELSE x

RECURSIVE Gcd(_, _)
Gcd(a, b) == IF b = 0 THEN a ELSE Gcd(b, a % b)

normalize(c) ==
    LET g == Gcd(Gcd(Abs(c[1]), Abs(c[2])), Abs(c[3]))
    IN  IF g = 0
        THEN [num |-> <<0, 0, 0>>, den2 |-> 0]
        ELSE LET d == <<c[1] \div g, c[2] \div g, c[3] \div g>>
             IN  [num |-> d, den2 |-> dot(d, d)]

\* A Vec3 given by the caller (an explicit face normal), unnormalised.
Vec3(c) == [num |-> c, den2 |-> 1]

---------------------------------------------------------------------------
\* The mesh as one record, threaded through the helpers.

Mesh == [vertices |-> vertices, faces |-> faces, next_index |-> next_index,
         vertex_indices |-> vertex_indices, panicked |-> panicked]

panic(m) == [m EXCEPT !.panicked = TRUE]

SectionIndex(s, i) == [section |-> s, index |-> i]

\* impl From<usize> for SectionIndex
SectionIndexFrom(i) == SectionIndex(0, i)

\* The vertex payload V of the model: a position and one more attribute.
Payload(p, t) == [pos |-> p, tag |-> t]

position(v) == v.pos

\* The hash key of a position: VertIdx3f::from(Vec3), bit-exact.
VertIdx3f(p) == p

\* FaceDataProps
FaceDataProps(n, d, s) == [normal |-> n, data |-> d, section |-> s]

FaceDataPropsDefault == FaceDataProps(None, None, None)

\* MeshGeometry::new
MeshNew == [vertices |-> <<>>, faces |-> <<>>, next_index |-> 0,
            vertex_indices |-> <<>>, panicked |-> FALSE]

\* Face::face3 / Face::face4: the uniqueness test that panics.
face3_unique(a, b, c) == ~(a = b \/ a = c \/ b = c)

face4_unique(a, b, c, d) ==
    ~(a = b \/ a = c \/ a = d \/ b = c \/ b = d \/ c = d)

Face(vs, normal, data) == [vertices |-> vs, face_normal |-> normal, data |-> data]

\* Mutant of get_vertex_index: the lookup is skipped and every call assigns
\* the next id.
get_vertex_index_fresh(m, pos) ==
    [m |-> [m EXCEPT !.vertex_indices =
                 [k \in DOMAIN @ \cup {VertIdx3f(pos)} |->
                     IF k = VertIdx3f(pos) THEN m.next_index ELSE @[k]],
                    !.next_index = m.next_index + 1],
     idx |-> m.next_index]

\* get_vertex_index: the id of a position, assigning the next one to a new
\* position.  The result is the mesh after the call and the id.
get_vertex_index(m, pos) ==
    LET k == VertIdx3f(pos)
    IN  IF k \in DOMAIN m.vertex_indices
        THEN [m |-> m, idx |-> m.vertex_indices[k]]
        ELSE [m |-> [m EXCEPT !.vertex_indices = @ @@ (k :> m.next_index),
                              !.next_index = m.next_index + 1],
              idx |-> m.next_index]

\* add_vertex_face: vertices[vertex_idx].faces.push(face_idx); indexing
\* past the end panics.
add_vertex_face(m, vertex_idx, face_idx) ==
    IF m.panicked THEN m
    ELSE IF vertex_idx >= Len(m.vertices) THEN panic(m)
    ELSE [m EXCEPT !.vertices[vertex_idx + 1].faces = Append(@, face_idx)]

\* Mutant of add_vertex: an entry is pushed whether or not the id has one.
add_vertex_always_push(m, vertex_idx, face_idx, data) ==
    IF m.panicked THEN m
    ELSE add_vertex_face(
            [m EXCEPT !.vertices =
                Append(@, [data |-> data, faces |-> <<>>, vertex_normal |-> None])],
            vertex_idx, face_idx)

\* Mutant of add_vertex: the payload of an existing entry is kept.
add_vertex_keep_first(m, vertex_idx, face_idx, data) ==
    IF m.panicked THEN m
    ELSE LET m1 == IF vertex_idx < Len(m.vertices) THEN m
                   ELSE [m EXCEPT !.vertices =
                            Append(@, [data |-> data, faces |-> <<>>,
                                       vertex_normal |-> None])]
         IN  add_vertex_face(m1, vertex_idx, face_idx)

\* add_vertex: overwrite the payload of an existing entry or push a new
\* entry, then register the face.
add_vertex(m, vertex_idx, face_idx, data) ==
    IF m.panicked THEN m
    ELSE LET m1 == IF vertex_idx < Len(m.vertices)
                   THEN [m EXCEPT !.vertices[vertex_idx + 1].data = data]
                   ELSE [m EXCEPT !.vertices =
                            Append(@, [data |-> data, faces |-> <<>>,
                                       vertex_normal |-> None])]
         IN  add_vertex_face(m1, vertex_idx, face_idx)

\* self.faces.entry(section).or_insert_with(Vec::new)
entry_or_insert(m, section) ==
    IF section \in DOMAIN m.faces THEN m
    ELSE [m EXCEPT !.faces = @ @@ (section :> <<>>)]

\* Mutant of add_face3_data: the face's index is read after the push.
add_face3_data_late_index(m, v1, v2, v3, data) ==
    LET r1 == get_vertex_index(m, position(v1))
        r2 == get_vertex_index(r1.m, position(v2))
        r3 == get_vertex_index(r2.m, position(v3))
        section == unwrap_or(data.section, 0)
        m4 == entry_or_insert(r3.m, section)
    IN  IF ~face3_unique(r1.idx, r2.idx, r3.idx) THEN panic(m4)
        ELSE LET m5 == [m4 EXCEPT !.faces[section] =
                           Append(@, Face(<<r1.idx, r2.idx, r3.idx>>,
                                          data.normal, data.data))]
                 face_idx == SectionIndex(section, Len(m5.faces[section]))
                 m6 == add_vertex(m5, r1.idx, face_idx, v1)
                 m7 == add_vertex(m6, r2.idx, face_idx, v2)
             IN  add_vertex(m7, r3.idx, face_idx, v3)

add_face3_data(m, v1, v2, v3, data) ==
    LET r1 == get_vertex_index(m, position(v1))
        r2 == get_vertex_index(r1.m, position(v2))
        r3 == get_vertex_index(r2.m, position(v3))
        section == unwrap_or(data.section, 0)
        m4 == entry_or_insert(r3.m, section)
        face_idx == SectionIndex(section, Len(m4.faces[section]))
    IN  IF ~face3_unique(r1.idx, r2.idx, r3.idx) THEN panic(m4)
        ELSE LET m5 == [m4 EXCEPT !.faces[section] =
                           Append(@, Face(<<r1.idx, r2.idx, r3.idx>>,
                                          data.normal, data.data))]
                 m6 == add_vertex(m5, r1.idx, face_idx, v1)
                 m7 == add_vertex(m6, r2.idx, face_idx, v2)
             IN  add_vertex(m7, r3.idx, face_idx, v3)

add_face4_data(m, v1, v2, v3, v4, data) ==
    LET r1 == get_vertex_index(m, position(v1))
        r2 == get_vertex_index(r1.m, position(v2))
        r3 == get_vertex_index(r2.m, position(v3))
        r4 == get_vertex_index(r3.m, position(v4))
        section == unwrap_or(data.section, 0)
        m5 == entry_or_insert(r4.m, section)
        face_idx == SectionIndex(section, Len(m5.faces[section]))
    IN  IF ~face4_unique(r1.idx, r2.idx, r3.idx, r4.idx) THEN panic(m5)
        ELSE LET m6 == [m5 EXCEPT !.faces[section] =
                           Append(@, Face(<<r1.idx, r2.idx, r3.idx, r4.idx>>,
                                          data.normal, data.data))]
                 m7 == add_vertex(m6, r1.idx, face_idx, v1)
                 m8 == add_vertex(m7, r2.idx, face_idx, v2)
                 m9 == add_vertex(m8, r3.idx, face_idx, v3)
             IN  add_vertex(m9, r4.idx, face_idx, v4)

\* add_face3 / add_face4: the _data variants with default props.
add_face3(m, v1, v2, v3) == add_face3_data(m, v1, v2, v3, FaceDataPropsDefault)

add_face4(m, v1, v2, v3, v4) ==
    add_face4_data(m, v1, v2, v3, v4, FaceDataPropsDefault)

---------------------------------------------------------------------------
\* Mutant of swap_remove: Vec::remove, which shifts the tail down.
swap_remove_shifting(s, i) ==
    [k \in 1 .. (Len(s) - 1) |-> IF k < i + 1 THEN s[k] ELSE s[k + 1]]

\* Vec::swap_remove(i) for a valid i: the last element takes slot i.
swap_remove(s, i) ==
    LET n == Len(s)
    IN  [k \in 1 .. (n - 1) |-> IF k = i + 1 THEN s[n] ELSE s[k]]

\* Iterator::position: the 0-based index of the first element equal to x as
\* an Option.
position_of(s, x) ==
    LET hits == {k \in 1 .. Len(s) : s[k] = x}
    IN  IF hits = {} THEN None
        ELSE Some((CHOOSE k \in hits : \A j \in hits : k <= j) - 1)

\* Mutant of strip_refs: references are compared by index only, whatever
\* their section.
RECURSIVE strip_refs_any_section(_, _, _)
strip_refs_any_section(m, vs, face_idx) ==
    IF vs = <<>> \/ m.panicked THEN m
    ELSE IF Head(vs) >= Len(m.vertices) THEN panic(m)
    ELSE strip_refs_any_section(
            [m EXCEPT !.vertices[Head(vs) + 1].faces =
                SelectSeq(@, LAMBDA j : j.index # face_idx.index)],
            Tail(vs), face_idx)

\* First loop of remove_face_internal: drop face_idx from the back-reference
\* list of each vertex of the removed face, in order.
RECURSIVE strip_refs(_, _, _)
strip_refs(m, vs, face_idx) ==
    IF vs = <<>> \/ m.panicked THEN m
    ELSE IF Head(vs) >= Len(m.vertices) THEN panic(m)
    ELSE strip_refs(
            [m EXCEPT !.vertices[Head(vs) + 1].faces =
                SelectSeq(@, LAMBDA j : j # face_idx)],
            Tail(vs), face_idx)

\* Mutant of patch_refs: the moved face's vertices are not patched.
patch_refs_skipped(m, vs, old_idx, face_idx) == m

\* Mutant of patch_refs: the new slot is pushed and the stale reference stays.
RECURSIVE patch_refs_pushing(_, _, _, _)
patch_refs_pushing(m, vs, old_idx, face_idx) ==
    IF vs = <<>> THEN m
    ELSE patch_refs_pushing(
            [m EXCEPT !.vertices[Head(vs) + 1].faces = Append(@, face_idx)],
            Tail(vs), old_idx, face_idx)

\* Second loop of remove_face_internal: in each vertex of the face that
\* moved, the first reference to the old last slot becomes face_idx.
RECURSIVE patch_refs(_, _, _, _)
patch_refs(m, vs, old_idx, face_idx) ==
    IF vs = <<>> \/ m.panicked THEN m
    ELSE IF Head(vs) >= Len(m.vertices) THEN panic(m)
    ELSE LET v_f_idx == position_of(m.vertices[Head(vs) + 1].faces, old_idx)
         IN  IF is_none(v_f_idx) THEN panic(m)
             ELSE patch_refs(
                    [m EXCEPT !.vertices[Head(vs) + 1].faces[unwrap(v_f_idx) + 1] =
                        face_idx],
                    Tail(vs), old_idx, face_idx)

\* The vertex entries without the entries at the end that no face refers to.
RECURSIVE drop_trailing_orphans(_)
drop_trailing_orphans(vs) ==
    IF vs = <<>> \/ vs[Len(vs)].faces # <<>> THEN vs
    ELSE drop_trailing_orphans(SubSeq(vs, 1, Len(vs) - 1))

\* Mutant of remove_face_internal: vertex entries at the end of the store
\* that are left without a face are dropped.
remove_face_internal_dropping(m, section, face_idx) ==
    IF m.panicked THEN m
    ELSE IF face_idx.index >= Len(m.faces[section]) THEN panic(m)
    ELSE LET face == m.faces[section][face_idx.index + 1]
             m1 == [m EXCEPT !.faces[section] = swap_remove(@, face_idx.index)]
             m2 == strip_refs(m1, face.vertices, face_idx)
             len == Len(m1.faces[section])
             m3 == IF face_idx.index # len /\ ~m2.panicked
                   THEN patch_refs(m2, m1.faces[section][face_idx.index + 1].vertices,
                                   SectionIndex(face_idx.section, len), face_idx)
                   ELSE m2
         IN  [m3 EXCEPT !.vertices = drop_trailing_orphans(@)]

\* remove_face_internal on the face list of section `section`.
remove_face_internal(m, section, face_idx) ==
    IF m.panicked THEN m
    ELSE IF face_idx.index >= Len(m.faces[section]) THEN panic(m)
    ELSE LET face == m.faces[section][face_idx.index + 1]
             m1 == [m EXCEPT !.faces[section] = swap_remove(@, face_idx.index)]
             m2 == strip_refs(m1, face.vertices, face_idx)
             len == Len(m1.faces[section])
         IN  IF face_idx.index # len /\ ~m2.panicked
             THEN patch_refs(m2, m1.faces[section][face_idx.index + 1].vertices,
                             SectionIndex(face_idx.section, len), face_idx)
             ELSE m2

\* remove_face: self.faces.get_mut(&section).unwrap() panics on a section
\* that has no list.
remove_face(m, face_idx) ==
    IF face_idx.section \notin DOMAIN m.faces THEN panic(m)
    ELSE remove_face_internal(m, face_idx.section, face_idx)

\* set_vertex: replace the payload of an existing entry; nothing otherwise.
set_vertex(m, vertex_idx, data) ==
    IF vertex_idx < Len(m.vertices)
    THEN [m EXCEPT !.vertices[vertex_idx + 1].data = data]
    ELSE m

---------------------------------------------------------------------------
\* triangulate.

\* Mutant of collect_quads: the quads lowest index first (no .rev()).
RECURSIVE collect_quads_forward(_, _)
collect_quads_forward(fs, n) ==
    IF n = 0 THEN <<>>
    ELSE IF Len(fs[n].vertices) = 4
         THEN collect_quads_forward(fs, n - 1)
              \o <<[i |-> n - 1, verts |-> fs[n].vertices,
                    normal |-> fs[n].face_normal, data |-> fs[n].data]>>
         ELSE collect_quads_forward(fs, n - 1)

\* The quads of a face list as (index, vertices, normal, data), collected
\* before any is processed, highest index first (.rev()).
RECURSIVE collect_quads(_, _)
collect_quads(fs, n) ==
    IF n = 0 THEN <<>>
    ELSE IF Len(fs[n].vertices) = 4
         THEN <<[i |-> n - 1, verts |-> fs[n].vertices,
                 normal |-> fs[n].face_normal, data |-> fs[n].data]>>
              \o collect_quads(fs, n - 1)
         ELSE collect_quads(fs, n - 1)

\* Mutant of push_face3: the triangle gets neither normal nor payload.
push_face3_plain(m, section, a, b, c, normal, data) ==
    IF m.panicked THEN m
    ELSE IF ~face3_unique(a, b, c) THEN panic(m)
    ELSE LET face_idx == SectionIndex(section, Len(m.faces[section]))
             m1 == [m EXCEPT !.faces[section] =
                       Append(@, Face(<<a, b, c>>, None, None))]
             m2 == add_vertex_face(m1, a, face_idx)
             m3 == add_vertex_face(m2, b, face_idx)
         IN  add_vertex_face(m3, c, face_idx)

\* Face::face3 followed by faces.push and the three add_vertex_face calls.
push_face3(m, section, a, b, c, normal, data) ==
    IF m.panicked THEN m
    ELSE IF ~face3_unique(a, b, c) THEN panic(m)
    ELSE LET face_idx == SectionIndex(section, Len(m.faces[section]))
             m1 == [m EXCEPT !.faces[section] =
                       Append(@, Face(<<a, b, c>>, normal, data))]
             m2 == add_vertex_face(m1, a, face_idx)
             m3 == add_vertex_face(m2, b, face_idx)
         IN  add_vertex_face(m3, c, face_idx)

\* Mutant of triangulate_quads: a section without quads has its first face
\* removed and pushed again.
RECURSIVE triangulate_quads_touching(_, _, _)
triangulate_quads_touching(m, section, quads) ==
    IF m.panicked THEN m
    ELSE IF quads = <<>>
    THEN IF Len(m.faces[section]) = 0 THEN m
         ELSE LET f == m.faces[section][1]
                  m1 == remove_face_internal(m, section, SectionIndex(section, 0))
              IN  push_face3(m1, section, f.vertices[1], f.vertices[2],
                             f.vertices[3], f.face_normal, f.data)
    ELSE LET q == Head(quads)
             m1 == remove_face_internal(m, section, SectionIndex(section, q.i))
             m2 == push_face3(m1, section, q.verts[1], q.verts[2], q.verts[3],
                              q.normal, q.data)
             m3 == push_face3(m2, section, q.verts[1], q.verts[3], q.verts[4],
                              q.normal, q.data)
         IN  IF Tail(quads) = <<>> THEN m3
             ELSE triangulate_quads_touching(m3, section, Tail(quads))

\* The body of the loop over the collected quads of one section.
RECURSIVE triangulate_quads(_, _, _)
triangulate_quads(m, section, quads) ==
    IF quads = <<>> \/ m.panicked THEN m
    ELSE LET q == Head(quads)
             m1 == remove_face_internal(m, section, SectionIndex(section, q.i))
             m2 == push_face3(m1, section, q.verts[1], q.verts[2], q.verts[3],
                              q.normal, q.data)
             m3 == push_face3(m2, section, q.verts[1], q.verts[3], q.verts[4],
                              q.normal, q.data)
         IN  triangulate_quads(m3, section, Tail(quads))

\* The sections of a BTreeMap in iteration (ascending key) order.
RECURSIVE sorted_keys(_)
sorted_keys(S) ==
    IF S = {} THEN <<>>
    ELSE LET lo == CHOOSE x \in S : \A y \in S : x <= y
         IN  <<lo>> \o sorted_keys(S \ {lo})

RECURSIVE triangulate_sections(_, _)
triangulate_sections(m, secs) ==
    IF secs = <<>> \/ m.panicked THEN m
    ELSE LET section == Head(secs)
             quads == collect_quads(m.faces[section], Len(m.faces[section]))
         IN  triangulate_sections(triangulate_quads(m, section, quads), Tail(secs))

\* Mutant of triangulate: only the first section is triangulated.
triangulate_first_section(m) ==
    LET secs == sorted_keys(DOMAIN m.faces)
    IN  triangulate_sections(m, IF secs = <<>> THEN secs ELSE <<Head(secs)>>)

triangulate(m) == triangulate_sections(m, sorted_keys(DOMAIN m.faces))

---------------------------------------------------------------------------
\* generate_face_normals.

\* v.length() < 0.0001
length_lt_1e4(v) == 100000000 * dot(v, v) < 1

\* (v2 / v2_len).dot(v1 / v1_len).abs() > 0.9999; with a zero length the
\* quotient is NaN and the comparison is false.
nearly_parallel(v1, v2) ==
    /\ dot(v1, v1) # 0
    /\ dot(v2, v2) # 0
    /\ 100000000 * dot(v1, v2) * dot(v1, v2)
          > 99980001 * dot(v1, v1) * dot(v2, v2)

\* Mutant of computed_normal: the 4th vertex is never used.
computed_normal_no_fallback(vs, verts) ==
    LET pos0 == position(vs[verts[1] + 1].data)
        pos1 == position(vs[verts[2] + 1].data)
        pos2 == position(vs[verts[3] + 1].data)
        v1 == vsub(pos2, pos0)
        v2 == vsub(pos1, pos0)
    IN  normalize(cross(v2, v1))

\* Mutant of computed_normal: the cross product is taken the other way
\* round.
computed_normal_flipped(vs, verts) ==
    LET pos0 == position(vs[verts[1] + 1].data)
        pos1 == position(vs[verts[2] + 1].data)
        pos2 == position(vs[verts[3] + 1].data)
        v1 == vsub(pos2, pos0)
        v2 == vsub(pos1, pos0)
        v1_len_0 == length_lt_1e4(v1)
        v2_len_0 == length_lt_1e4(v2)
        v3_len_0 == nearly_parallel(v1, v2)
        fallback == (v1_len_0 \/ v2_len_0 \/ v3_len_0) /\ Len(verts) > 3
        pos3 == position(vs[verts[4] + 1].data)
        v2f == IF fallback /\ v2_len_0 THEN vsub(pos1, pos3) ELSE v2
        v1f == IF fallback /\ ~v2_len_0 THEN vsub(pos3, pos0) ELSE v1
    IN  normalize(cross(v1f, v2f))

\* The normal computed for a face that has none.
computed_normal(vs, verts) ==
    LET pos0 == position(vs[verts[1] + 1].data)
        pos1 == position(vs[verts[2] + 1].data)
        pos2 == position(vs[verts[3] + 1].data)
        v1 == vsub(pos2, pos0)
        v2 == vsub(pos1, pos0)
        v1_len_0 == length_lt_1e4(v1)
        v2_len_0 == length_lt_1e4(v2)
        v3_len_0 == nearly_parallel(v1, v2)
        fallback == (v1_len_0 \/ v2_len_0 \/ v3_len_0) /\ Len(verts) > 3
        pos3 == position(vs[verts[4] + 1].data)
        v2f == IF fallback /\ v2_len_0 THEN vsub(pos1, pos3) ELSE v2
        v1f == IF fallback /\ ~v2_len_0 THEN vsub(pos3, pos0) ELSE v1
    IN  normalize(cross(v2f, v1f))

\* Every vertex id of every face indexes the vertex store.
faces_in_range(m) ==
    \A s \in DOMAIN m.faces : \A k \in 1 .. Len(m.faces[s]) :
        \A j \in 1 .. Len(m.faces[s][k].vertices) :
            m.faces[s][k].vertices[j] < Len(m.vertices)

\* Mutant of generate_face_normals: every face gets a computed normal.
generate_face_normals_all(m) ==
    IF m.panicked THEN m
    ELSE IF ~faces_in_range(m) THEN panic(m)
    ELSE [m EXCEPT !.faces =
            [s \in DOMAIN m.faces |->
                [k \in 1 .. Len(m.faces[s]) |->
                    [m.faces[s][k] EXCEPT !.face_normal =
                        Some(computed_normal(m.vertices, m.faces[s][k].vertices))]]]]

\* generate_face_normals: faces that have a normal keep it.  Indexing the
\* vertex store with an id past its end panics.
generate_face_normals(m) ==
    IF m.panicked THEN m
    ELSE IF ~faces_in_range(m) THEN panic(m)
    ELSE [m EXCEPT !.faces =
            [s \in DOMAIN m.faces |->
                [k \in 1 .. Len(m.faces[s]) |->
                    IF is_none(m.faces[s][k].face_normal)
                    THEN [m.faces[s][k] EXCEPT !.face_normal =
                            Some(computed_normal(m.vertices, m.faces[s][k].vertices))]
                    ELSE m.faces[s][k]]]]

---------------------------------------------------------------------------
\* to_renderable_buffer_by_type: its effect on the mesh.

MeshBufferType == {"NoNormals", "VertexNormals", "VertexNormalFaceData", "FaceNormals"}

\* MeshVertex::section_faces
section_faces(v, section) ==
    LET fs == SelectSeq(v.faces, LAMBDA si : si.section = section)
    IN  [k \in 1 .. Len(fs) |-> fs[k].index]

\* The sections some vertex has a back-reference into: the keys of
\* section_vertices after the first loop of the VertexNormals arm.
referenced_sections(m) ==
    UNION {{m.vertices[i].faces[k].section : k \in 1 .. Len(m.vertices[i].faces)} :
              i \in 1 .. Len(m.vertices)}

\* calculate_vertex_normal succeeds for vertex v in section s: every index
\* of section_faces is in the list and the face there has a normal.
vertex_normal_ok(m, v, s) ==
    LET idxs == section_faces(m.vertices[v + 1], s)
    IN  \A k \in 1 .. Len(idxs) :
            /\ idxs[k] < Len(m.faces[s])
            /\ is_some(m.faces[s][idxs[k] + 1].face_normal)

\* Every lookup of the mode's arm succeeds (unwrap of a map entry, of a face
\* normal, indexing of a Vec).
emit_lookups_ok(m, geom_type) ==
    CASE geom_type = "NoNormals" -> TRUE
      [] geom_type = "VertexNormals" ->
            \A s \in DOMAIN m.faces :
                /\ s \in referenced_sections(m)
                /\ \A i \in 1 .. Len(m.vertices) :
                      (\E k \in 1 .. Len(m.vertices[i].faces) :
                            m.vertices[i].faces[k].section = s)
                         => vertex_normal_ok(m, i - 1, s)
                /\ \A k \in 1 .. Len(m.faces[s]) :
                      \A j \in 1 .. Len(m.faces[s][k].vertices) :
                        LET v == m.faces[s][k].vertices[j]
                        IN  /\ v < Len(m.vertices)
                            /\ \E r \in 1 .. Len(m.vertices[v + 1].faces) :
                                  m.vertices[v + 1].faces[r].section = s
      [] geom_type = "VertexNormalFaceData" ->
            \A s \in DOMAIN m.faces : \A k \in 1 .. Len(m.faces[s]) :
                \A j \in 1 .. Len(m.faces[s][k].vertices) :
                    LET v == m.faces[s][k].vertices[j]
                    IN  v < Len(m.vertices) /\ vertex_normal_ok(m, v, s)
      [] geom_type = "FaceNormals" ->
            \A s \in DOMAIN m.faces : \A k \in 1 .. Len(m.faces[s]) :
                /\ is_some(m.faces[s][k].face_normal)
                /\ \A j \in 1 .. Len(m.faces[s][k].vertices) :
                      m.faces[s][k].vertices[j] < Len(m.vertices)

\* to_renderable_buffer_by_type: generate_face_normals (all modes but
\* NoNormals), triangulate, then the read-only pass that fills the buffers,
\* which panics when a lookup fails.
to_renderable_buffer_by_type(m, geom_type) ==
    LET m1 == IF geom_type = "NoNormals" THEN triangulate(m)
              ELSE triangulate(generate_face_normals(m))
    IN  IF m1.panicked THEN m1
        ELSE IF ~emit_lookups_ok(m1, geom_type) THEN panic(m1)
        ELSE m1

\* OverrideAttributesWith::override_with for the model's payload: the
\* attribute of the override wins, the position stays.
override_with(data, attribs) == [data EXCEPT !.tag = attribs.tag]

\* Mutant of face_vertex_data: the face's override payload is ignored.
face_vertex_data_plain(vertex, face) == vertex.data

\* The payload written for a vertex of a face: merged with the face's
\* override payload when it has one.
face_vertex_data(vertex, face) ==
    IF is_some(face.data) THEN override_with(vertex.data, unwrap(face.data))
    ELSE vertex.data

\* The square root of a squared denominator.
root(n) == CHOOSE r \in 0 .. n : r * r = n

\* normal += face.face_normal.unwrap() over the faces of face_indices: the
\* sum as a numerator c over a common denominator d; nan once a NaN normal
\* was added.
RECURSIVE sum_normals(_, _, _)
sum_normals(fs, face_indices, acc) ==
    IF face_indices = <<>> THEN acc
    ELSE LET n == unwrap(fs[Head(face_indices) + 1].face_normal)
             r == root(n.den2)
             next == IF acc.nan \/ n.den2 = 0
                     THEN [c |-> <<0, 0, 0>>, d |-> 1, nan |-> TRUE]
                     ELSE [c |-> <<acc.c[1] * r + n.num[1] * acc.d,
                                   acc.c[2] * r + n.num[2] * acc.d,
                                   acc.c[3] * r + n.num[3] * acc.d>>,
                           d |-> acc.d * r, nan |-> FALSE]
         IN  sum_normals(fs, Tail(face_indices), next)

\* Mutant of calculate_vertex_normal: the sum is normalised with normalize,
\* which gives the NaN vector for a zero sum.
calculate_vertex_normal_nan(fs, face_indices) ==
    LET sum == sum_normals(fs, face_indices,
                           [c |-> <<0, 0, 0>>, d |-> 1, nan |-> FALSE])
    IN  IF sum.nan THEN [num |-> <<0, 0, 0>>, den2 |-> 0]
        ELSE normalize(sum.c)

\* calculate_vertex_normal: the normalised sum, the zero vector when the sum
\* is zero or NaN (normalize_or_zero).
calculate_vertex_normal(fs, face_indices) ==
    LET sum == sum_normals(fs, face_indices,
                           [c |-> <<0, 0, 0>>, d |-> 1, nan |-> FALSE])
    IN  IF sum.nan \/ sum.c = <<0, 0, 0>>
        THEN [num |-> <<0, 0, 0>>, den2 |-> 1]
        ELSE normalize(sum.c)

\* The faces of all sections in iteration order, each with its section.
RECURSIVE faces_in_order(_, _)
faces_in_order(m, secs) ==
    IF secs = <<>> THEN <<>>
    ELSE [k \in 1 .. Len(m.faces[Head(secs)]) |->
             [section |-> Head(secs), face |-> m.faces[Head(secs)][k]]]
         \o faces_in_order(m, Tail(secs))

\* The vertex ids of a sequence of faces, face by face.
RECURSIVE face_vertex_ids(_)
face_vertex_ids(fs) ==
    IF fs = <<>> THEN <<>>
    ELSE Head(fs).vertices \o face_vertex_ids(Tail(fs))

\* The (vertex, section) pairs visited by the first loop of the
\* VertexNormals arm: every back-reference of every vertex, in order.
RECURSIVE back_references(_, _)
back_references(vs, n) ==
    IF n = 0 THEN <<>>
    ELSE back_references(vs, n - 1)
         \o [k \in 1 .. Len(vs[n].faces) |->
                [i |-> n - 1, section |-> vs[n].faces[k].section]]

\* The body of the first loop of the VertexNormals arm: acc holds
\* section_vertices and section_vert_indices.
RECURSIVE scan_back_references(_, _)
scan_back_references(refs, acc) ==
    IF refs = <<>> THEN acc
    ELSE LET i == Head(refs).i
             section == Head(refs).section
             sv == IF section \in DOMAIN acc.section_vertices
                   THEN acc.section_vertices
                   ELSE acc.section_vertices @@ (section :> <<>>)
             svi == IF i \in DOMAIN acc.section_vert_indices
                    THEN acc.section_vert_indices
                    ELSE acc.section_vert_indices @@ (i :> <<>>)
             index == Len(sv[section])
         IN  scan_back_references(Tail(refs),
                [section_vertices |-> [sv EXCEPT ![section] = Append(@, i)],
                 section_vert_indices |->
                    [svi EXCEPT ![i] =
                        [s \in DOMAIN @ \cup {section} |->
                            IF s = section THEN index ELSE @[s]]]])

\* Mutant of emit_vertex_normals: the section-local index is written
\* without the offset.
RECURSIVE emit_vertex_normals_local(_, _, _, _)
emit_vertex_normals_local(m, secs, maps, out) ==
    IF secs = <<>> THEN out
    ELSE LET section == Head(secs)
             fs == m.faces[section]
             vs == maps.section_vertices[section]
             records == [k \in 1 .. Len(vs) |->
                            [data |-> m.vertices[vs[k] + 1].data,
                             normal |-> Some(calculate_vertex_normal(fs,
                                 section_faces(m.vertices[vs[k] + 1], section)))]]
             ids == face_vertex_ids(fs)
             idxs == [k \in 1 .. Len(ids) |->
                         maps.section_vert_indices[ids[k]][section]]
         IN  emit_vertex_normals_local(m, Tail(secs), maps,
                [buffer |-> out.buffer \o records,
                 indices |-> out.indices \o idxs,
                 idx_offset |-> out.idx_offset + Len(vs)])

\* The second loop of the VertexNormals arm: out holds the records, the
\* indices and idx_offset.
RECURSIVE emit_vertex_normals(_, _, _, _)
emit_vertex_normals(m, secs, maps, out) ==
    IF secs = <<>> THEN out
    ELSE LET section == Head(secs)
             fs == m.faces[section]
             vs == maps.section_vertices[section]
             records == [k \in 1 .. Len(vs) |->
                            [data |-> m.vertices[vs[k] + 1].data,
                             normal |-> Some(calculate_vertex_normal(fs,
                                 section_faces(m.vertices[vs[k] + 1], section)))]]
             ids == face_vertex_ids(fs)
             idxs == [k \in 1 .. Len(ids) |->
                         maps.section_vert_indices[ids[k]][section]
                         + out.idx_offset]
         IN  emit_vertex_normals(m, Tail(secs), maps,
                [buffer |-> out.buffer \o records,
                 indices |-> out.indices \o idxs,
                 idx_offset |-> out.idx_offset + Len(vs)])

\* Mutant of emit_unrolled: one record per face, for its first vertex.
RECURSIVE emit_unrolled_per_face(_, _, _)
emit_unrolled_per_face(m, fs, geom_type) ==
    IF fs = <<>> THEN <<>>
    ELSE LET face == Head(fs).face
             vertex == m.vertices[face.vertices[1] + 1]
         IN  <<[data |-> face_vertex_data(vertex, face),
                normal |-> face.face_normal]>>
             \o emit_unrolled_per_face(m, Tail(fs), geom_type)

\* Mutant of emit_unrolled: the vertex normal is computed on the face list
\* of the lowest section for the faces of every section.
RECURSIVE emit_unrolled_lowest_section(_, _, _)
emit_unrolled_lowest_section(m, fs, geom_type) ==
    IF fs = <<>> THEN <<>>
    ELSE LET section == Head(fs).section
             face == Head(fs).face
             lowest == Head(sorted_keys(DOMAIN m.faces))
         IN  [j \in 1 .. Len(face.vertices) |->
                LET vertex == m.vertices[face.vertices[j] + 1]
                IN  [data |-> face_vertex_data(vertex, face),
                     normal |->
                        IF geom_type = "FaceNormals"
                        THEN Some(unwrap(face.face_normal))
                        ELSE Some(calculate_vertex_normal(m.faces[lowest],
                                      section_faces(vertex, section)))]]
             \o emit_unrolled_lowest_section(m, Tail(fs), geom_type)

\* The loops of the VertexNormalFaceData and FaceNormals arms: one record
\* per vertex of each face, with the per-section vertex normal or the face's
\* normal.
RECURSIVE emit_unrolled(_, _, _)
emit_unrolled(m, fs, geom_type) ==
    IF fs = <<>> THEN <<>>
    ELSE LET section == Head(fs).section
             face == Head(fs).face
         IN  [j \in 1 .. Len(face.vertices) |->
                LET vertex == m.vertices[face.vertices[j] + 1]
                IN  [data |-> face_vertex_data(vertex, face),
                     normal |->
                        IF geom_type = "FaceNormals"
                        THEN Some(unwrap(face.face_normal))
                        ELSE Some(calculate_vertex_normal(m.faces[section],
                                      section_faces(vertex, section)))]]
             \o emit_unrolled(m, Tail(fs), geom_type)

\* The vertex records and the indices written by the mode's arm, for a mesh
\* on which every lookup of the arm succeeds.  An index is written as u32;
\* the ids of the meshes built here are far below 2^32, so the cast keeps
\* them.
emit_buffers(m, geom_type) ==
    LET secs == sorted_keys(DOMAIN m.faces)
        fs == faces_in_order(m, secs)
    IN  CASE geom_type = "NoNormals" ->
                [buffer |-> [i \in 1 .. Len(m.vertices) |->
                                [data |-> m.vertices[i].data, normal |-> None]],
                 indices |-> face_vertex_ids([k \in 1 .. Len(fs) |-> fs[k].face])]
          [] geom_type = "VertexNormals" ->
                LET maps == scan_back_references(
                                back_references(m.vertices, Len(m.vertices)),
                                [section_vertices |-> <<>>,
                                 section_vert_indices |-> <<>>])
                    out == emit_vertex_normals(m, secs, maps,
                                [buffer |-> <<>>, indices |-> <<>>, idx_offset |-> 0])
                IN  [buffer |-> out.buffer, indices |-> out.indices]
          [] OTHER ->
                [buffer |-> emit_unrolled(m, fs, geom_type), indices |-> <<>>]

\* Mutant of RenderableBuffer: index_count is the byte length of the indices.
RenderableBuffer_byte_count(buffer, indices) ==
    [vertex_buffer |-> buffer,
     index_buffer |-> IF Len(indices) = 0 THEN None ELSE Some(indices),
     vertex_count |-> Len(buffer),
     index_count |-> 4 * Len(indices)]

\* Mutant of RenderableBuffer: an empty index list is returned as a buffer.
RenderableBuffer_always_indexed(buffer, indices) ==
    [vertex_buffer |-> buffer,
     index_buffer |-> Some(indices),
     vertex_count |-> Len(buffer),
     index_count |-> Len(indices)]

\* The RenderableBuffer built from the records and the indices; each index
\* takes four bytes of the index buffer.
RenderableBuffer(buffer, indices) ==
    LET indices_len == 4 * Len(indices)
    IN  [vertex_buffer |-> buffer,
         index_buffer |-> IF indices_len = 0 THEN None ELSE Some(indices),
         vertex_count |-> Len(buffer),
         index_count |-> indices_len \div 4]

\* The mesh on which the mode's arm calls triangulate.
before_triangulate(m, geom_type) ==
    IF geom_type = "NoNormals" THEN m ELSE generate_face_normals(m)

\* The value to_renderable_buffer_by_type returns for the mesh it leaves:
\* None when the call panicked.
emit_result(m1, geom_type) ==
    IF m1.panicked THEN None
    ELSE LET b == emit_buffers(m1, geom_type)
         IN  Some(RenderableBuffer(b.buffer, b.indices))

\* bytemuck::bytes_of(&vertex.data): the bytes of the payload, 32-bit floats
\* without padding: the components of the position and the attribute.
bytes_of_data(data) == 4 * (Len(data.pos) + 1)

\* bytemuck::bytes_of(&normal): the three 32-bit floats of a Vec3.
bytes_of_normal(normal) == 4 * Len(normal.num)

\* bytemuck::bytes_of(&i) of an index written as u32.
bytes_of_index(i) == 4

\* The bytes one vertex record adds to the buffer: the payload, then the
\* normal in the arms that write one.
record_bytes(record) ==
    bytes_of_data(record.data)
        + (IF is_some(record.normal)
           THEN bytes_of_normal(unwrap(record.normal)) ELSE 0)

\* buffer.len() of a vertex buffer holding the records given.
RECURSIVE vertex_buffer_len(_)
vertex_buffer_len(buffer) ==
    IF buffer = <<>> THEN 0
    ELSE record_bytes(Head(buffer)) + vertex_buffer_len(Tail(buffer))

\* indices.len() of an index buffer holding the indices given.
RECURSIVE index_buffer_len(_)
index_buffer_len(indices) ==
    IF indices = <<>> THEN 0
    ELSE bytes_of_index(Head(indices)) + index_buffer_len(Tail(indices))

\* VertexType: a named field of a vertex layout.
VertexType(name, format) == [name |-> name, format |-> format]

\* VertexFormat::byte_size, for the formats of the model's payload.
byte_size(format) ==
    CASE format = "Uint8x2" -> 2
      [] format = "Float32" -> 4
      [] format = "Float32x3" -> 12

\* V::vertex_layout() of the model's payload: the position, then the
\* attribute.
vertex_layout ==
    <<VertexType("position", "Float32x3"), VertexType("tag", "Float32")>>

\* The byte size of the first n fields of a layout.
RECURSIVE layout_size(_, _)
layout_size(layout, n) ==
    IF n = 0 THEN 0
    ELSE layout_size(layout, n - 1) + byte_size(layout[n].format)

\* create_buffered_geometry_layout: every field with its byte offset, in
\* the order given, and the size of one vertex.
create_buffered_geometry_layout(layout) ==
    [vertex_layout |->
        [i \in 1 .. Len(layout) |->
            [name |-> layout[i].name, format |-> layout[i].format,
             offset |-> layout_size(layout, i - 1)]],
     vertex_size |-> layout_size(layout, Len(layout))]

\* Mutant of buffered_layout: the normal field is appended in every mode.
buffered_layout_normal_always(geom_type) ==
    Append(vertex_layout, VertexType("normal", "Float32x3"))

\* The layout to_buffered_geometry_by_type hands on: the payload's, with a
\* trailing normal unless the mode is NoNormals.
buffered_layout(geom_type) ==
    IF geom_type # "NoNormals"
    THEN Append(vertex_layout, VertexType("normal", "Float32x3"))
    ELSE vertex_layout

\* The BufferedGeometry built from a RenderableBuffer and a layout.
BufferedGeometry(buffer, geom_layout) ==
    [rendering_primitive |-> "Triangles",
     vertex_count |-> IF is_some(buffer.index_buffer)
                      THEN buffer.index_count ELSE buffer.vertex_count,
     vertex_size |-> geom_layout.vertex_size,
     vertex_layout |-> geom_layout.vertex_layout,
     buffer |-> buffer.vertex_buffer,
     indices |-> buffer.index_buffer]

\* The value to_buffered_geometry_by_type returns for the mesh its call of
\* to_renderable_buffer_by_type leaves: None when that call panicked.
buffered_result(m1, geom_type) ==
    IF m1.panicked THEN None
    ELSE Some(BufferedGeometry(
                unwrap(emit_result(m1, geom_type)),
                create_buffered_geometry_layout(buffered_layout(geom_type))))

---------------------------------------------------------------------------
\* Inputs.

\* The positions callers use: the corners of the unit quad, then two more
\* points of the same plane and one point off it.
Points == << <<0, 0, 0>>, <<1, 0, 0>>, <<1, 1, 0>>, <<0, 1, 0>>,
             <<2, 0, 0>>, <<2, 1, 0>>, <<0, 0, 1>> >>

Corners == 1 .. 4

Sections == {0, 1}

\* The explicit normal and the override payload callers pass in props.
ExplicitNormal == Vec3(<<0, 0, 2>>)

OverrideData == Payload(<<0, 0, 0>>, 7)

PropsSection == FaceDataProps(None, None, Some(1))

PropsNormalData == FaceDataProps(Some(ExplicitNormal), Some(OverrideData), None)

\* The (payload tag, props) combinations of a call.
CallKinds == {<<0, FaceDataPropsDefault>>, <<1, FaceDataPropsDefault>>,
              <<0, PropsSection>>, <<1, PropsNormalData>>}

payloads(ps, t) == [k \in 1 .. Len(ps) |-> Payload(Points[ps[k]], t)]

\* Position triples of three distinct corners in ascending order, and one
\* in the opposite winding.
Tri3 == {t \in [1 .. 3 -> Corners] : t[1] < t[2] /\ t[2] < t[3]} \cup {<<1, 3, 2>>}

\* Position triples whose last position repeats the first.
Tri3Repeated == {t \in [1 .. 3 -> Corners] : t[1] < t[2] /\ t[3] = t[1]}

\* The unit quad in both windings.
Quad4 == {<<1, 2, 3, 4>>, <<1, 4, 3, 2>>}

\* Position 4-tuples whose last position repeats the first.
Quad4Repeated == {t \in [1 .. 4 -> Corners] :
                    t[1] < t[2] /\ t[2] < t[3] /\ t[4] = t[1]}

Call(ps, t, props) == [vs |-> payloads(ps, t), props |-> props]

Face3Calls ==
    {Call(ps, k[1], k[2]) : ps \in Tri3, k \in CallKinds}
    \cup {Call(ps, 0, FaceDataPropsDefault) : ps \in Tri3Repeated}

Face4Calls ==
    {Call(ps, k[1], k[2]) : ps \in Quad4, k \in CallKinds}
    \cup {Call(ps, 0, FaceDataPropsDefault) : ps \in Quad4Repeated}

---------------------------------------------------------------------------
\* The state machine.

total_faces(fs) ==
    LET RECURSIVE sum(_)
        sum(S) == IF S = {} THEN 0
                  ELSE LET s == CHOOSE x \in S : TRUE
                       IN  Len(fs[s]) + sum(S \ {s})
    IN  sum(DOMAIN fs)

\* The attribute buffers of the rendering module (BufferedGeometryData).

\* The width of usize in the model: counters run modulo 2^UsizeWidth.
UsizeWidth == 3

RECURSIVE Pow2(_)
Pow2(n) == IF n = 0 THEN 1 ELSE 2 * Pow2(n - 1)

\* The vertex formats of the model: one float, three floats, two bytes.
Formats == {"Float32", "Float32x3", "Uint8x2"}

\* VertexFormat::normalized.
normalized(format) ==
    format \in {"Unorm16x2", "Unorm16x4", "Unorm8x2", "Unorm8x4",
                "Snorm16x2", "Snorm16x4", "Snorm8x2", "Snorm8x4"}

\* VertexFormat::count.
count(format) ==
    CASE format = "Float32" -> 1
      [] format = "Uint8x2" -> 2
      [] format = "Float32x3" -> 3

\* VertexFormat::attr_type.
attr_type(format) ==
    CASE format = "Uint8x2" -> "UnsignedByte"
      [] format \in {"Float32x3", "Float32"} -> "Float"

\* VertexFormat::create_values: the empty value vector of a format; the
\* vector of a two-byte format is the one of four bytes.
create_values(format) ==
    [variant |-> CASE format = "Float32" -> "Float32"
                   [] format = "Uint8x2" -> "Uint8x4"
                   [] format = "Float32x3" -> "Float32x3",
     items |-> <<>>]

\* The variants of VertexAttributeValue of the model and the size in bytes
\* of one element of the vector of the same variant.
ValueVariants == {"Float32", "Float32x3", "Uint8x2", "Uint8x4"}

element_bytes(variant) ==
    CASE variant = "Float32" -> 4
      [] variant = "Float32x3" -> 12
      [] variant = "Uint8x2" -> 2
      [] variant = "Uint8x4" -> 4

\* VertexAttributeValue: a variant and its content.
VertexAttributeValue(variant, content) == [variant |-> variant, content |-> content]

\* VertexAttributeValues::get_bytes_at: the bytes of the element at idx,
\* each byte named by the element's content and its place, or None past
\* the end.
get_bytes_at(values, idx) ==
    IF idx < Len(values.items)
    THEN Some([b \in 1 .. element_bytes(values.variant) |->
                  <<values.items[idx + 1], b>>])
    ELSE None

\* AttributeIndex::new and attr_idx.
AttributeIndex(name, format, index) ==
    [name |-> name, format |-> format, index |-> index]

attr_idx(name, format, index) == AttributeIndex(name, format, index)

\* BufferedGeometryData::new.
BufferedGeometryDataNew(rendering_primitive) ==
    [attributes |-> <<>>, indices |-> None,
     rendering_primitive |-> rendering_primitive]

\* BTreeMap::insert.
map_insert(map, key, value) ==
    [k \in DOMAIN map \cup {key} |-> IF k = key THEN value ELSE map[k]]

\* BufferedGeometryData::init_attribute.
init_attribute(data, idx) ==
    [data EXCEPT !.attributes =
        map_insert(@, idx.index,
                   [index |-> idx, values |-> create_values(idx.format)])]

\* BufferedGeometryData::add_value on an initialised attribute: the value
\* is pushed when its variant is the vector's, and dropped otherwise.
add_value(data, idx, value) ==
    IF data.attributes[idx].values.variant = value.variant
    THEN [data EXCEPT !.attributes[idx].values.items = Append(@, value.content)]
    ELSE data

\* The first loop of to_buffered_geometry: the layout of the attributes
\* with keys ks, in their order, onto the locals f.
RECURSIVE layout_attributes(_, _, _)
layout_attributes(data, ks, f) ==
    IF ks = <<>> THEN f
    ELSE LET format == data.attributes[ks[1]].index.format
         IN  layout_attributes(data, Tail(ks),
                [f EXCEPT
                    !.vertex_layout =
                        Append(@, [name |-> data.attributes[ks[1]].index.name,
                                   size |-> count(format),
                                   attr_type |-> attr_type(format),
                                   normalized |-> normalized(format),
                                   offset |-> f.vertex_size]),
                    !.vertex_size = @ + byte_size(format)])

\* The locals of to_buffered_geometry when its while loop is entered.
to_buffered_geometry_enter(data) ==
    layout_attributes(data, sorted_keys(DOMAIN data.attributes),
        [pc |-> "loop", buffer |-> <<>>, vertex_layout |-> <<>>,
         vertex_size |-> 0, vertex_count |-> 0, has_values |-> TRUE])

\* The for loop inside the while loop of to_buffered_geometry, over the
\* attributes with keys ks: bytes found are appended, and found after an
\* attribute of this pass had none they make the call panic.
RECURSIVE append_values(_, _, _)
append_values(data, ks, f) ==
    IF ks = <<>> \/ f.pc = "panicked" THEN f
    ELSE LET bytes == get_bytes_at(data.attributes[ks[1]].values, f.vertex_count)
         IN  append_values(data, Tail(ks),
                IF is_some(bytes)
                THEN [f EXCEPT !.buffer = @ \o unwrap(bytes),
                               !.pc = IF f.has_values THEN @ ELSE "panicked"]
                ELSE [f EXCEPT !.has_values = FALSE])

\* The value to_buffered_geometry returns from the locals f.
to_buffered_geometry_return(data, f) ==
    LET indices_len == IF is_some(data.indices) THEN Len(unwrap(data.indices))
                       ELSE 0
    IN  [buffer |-> f.buffer,
         rendering_primitive |-> "Triangles",
         indices |-> data.indices,
         vertex_size |-> f.vertex_size,
         vertex_count |-> IF indices_len > 0 THEN indices_len
                          ELSE f.vertex_count,
         vertex_layout |-> f.vertex_layout]

\* The layers of the painter (trivalibs_painter).

\* The most layers a painter holds in the model.
MaxLayers == 2

\* The surface configuration of the painter: the size and the format of
\* the window.
WindowConfig == [width |-> 2, height |-> 2, format |-> "Bgra8UnormSrgb"]

\* map_format_to_u8, on the formats of the model.
map_format_to_u8(format) ==
    CASE format = "Rgba8Unorm" -> 17
      [] format = "Bgra8UnormSrgb" -> 23

\* A painter without textures and layers, with a sketch that does not test
\* depth and one that does; device_textures counts the textures the device
\* has created.
PainterNew ==
    [config |-> WindowConfig, textures |-> <<>>, device_textures |-> 0,
     sketches |-> <<[depth_test |-> FALSE], [depth_test |-> TRUE]>>,
     layers |-> <<>>]

Texture2DProps(width, height, format) ==
    [kind |-> "2d", width |-> width, height |-> height, format |-> format]

TextureDepthProps(width, height) ==
    [kind |-> "depth", width |-> width, height |-> height,
     format |-> "Depth24Plus"]

\* Texture::create_2d and Texture::create_depth: a new texture of the
\* device is stored in the painter and its handle returned.
create_texture(p, props) ==
    [painter |-> [p EXCEPT !.textures =
                                Append(@, [props |-> props,
                                           object |-> p.device_textures]),
                           !.device_textures = @ + 1],
     texture |-> Len(p.textures)]

\* Texture::replace_2d and Texture::replace_depth: a new texture of the
\* device takes the place of the one the handle names.
replace_texture(p, texture, props) ==
    [p EXCEPT !.textures[texture + 1] =
                  [props |-> props, object |-> p.device_textures],
              !.device_textures = @ + 1]

\* LayerProps, with the fields the model varies.
LayerProps(sketches, width, height, format) ==
    [sketches |-> sketches, effects |-> <<>>, width |-> width,
     height |-> height, format |-> format, clear_color |-> None,
     binding_visibility |-> "FRAGMENT", multisampled |-> FALSE]

\* Layer::new: the painter with the new layer and the layer's handle.
Layer_new(p, props) ==
    LET use_window_size == props.width = 0 \/ props.height = 0
        width == IF use_window_size THEN p.config.width ELSE props.width
        height == IF use_window_size THEN p.config.height ELSE props.height
        format == unwrap_or(props.format, p.config.format)
        target == create_texture(p, Texture2DProps(width, height, format))
        use_depth == \E k \in 1 .. Len(props.sketches) :
                        p.sketches[props.sketches[k] + 1].depth_test
        depth == create_texture(target.painter,
                                TextureDepthProps(width, height))
        storage ==
            [width |-> width, height |-> height,
             target_textures |-> <<target.texture>>,
             target_uniforms |-> <<>>,
             sketches |-> props.sketches,
             effects |-> props.effects,
             depth_texture |-> IF use_depth THEN Some(depth.texture) ELSE None,
             use_window_size |-> use_window_size,
             clear_color |-> props.clear_color,
             binding_visibility |-> props.binding_visibility,
             format |-> format,
             pipeline_key |-> <<map_format_to_u8(format),
                                IF props.multisampled THEN 1 ELSE 0>>,
             multisampled |-> props.multisampled]
        p1 == IF use_depth THEN depth.painter ELSE target.painter
    IN  [painter |-> [p1 EXCEPT !.layers = Append(@, storage)],
         layer |-> Len(p.layers)]

\* Layer::get_uniform: the cached uniform of the layer's first target, or a
\* new one on the texture the target holds now, which is cached.
Layer_get_uniform(p, layer) ==
    IF Len(p.layers[layer + 1].target_uniforms) > 0
    THEN [painter |-> p, uniform |-> p.layers[layer + 1].target_uniforms[1]]
    ELSE LET texture == p.layers[layer + 1].target_textures[1]
             uniform == [visibility |-> p.layers[layer + 1].binding_visibility,
                         texture |-> texture,
                         object |-> p.textures[texture + 1].object]
         IN  [painter |-> [p EXCEPT !.layers[layer + 1].target_uniforms =
                                        Append(@, uniform)],
              uniform |-> uniform]

\* The loop of Layer::resize over the target textures.
RECURSIVE replace_targets(_, _, _, _)
replace_targets(p, targets, width, height) ==
    IF targets = <<>> THEN p
    ELSE replace_targets(
            replace_texture(p, targets[1],
                Texture2DProps(width, height,
                               p.textures[targets[1] + 1].props.format)),
            Tail(targets), width, height)

\* Layer::resize.
Layer_resize(p, layer, w, h) ==
    LET use_window_size == w = 0 \/ h = 0
        width == IF use_window_size THEN p.config.width ELSE w
        height == IF use_window_size THEN p.config.height ELSE h
        storage == p.layers[layer + 1]
        p1 == [p EXCEPT !.layers[layer + 1] =
                   [@ EXCEPT !.width = width, !.height = height,
                             !.use_window_size = use_window_size,
                             !.target_uniforms = <<>>]]
        p2 == replace_targets(p1, storage.target_textures, width, height)
    IN  IF storage.width = width /\ storage.height = height THEN p
        ELSE IF is_some(storage.depth_texture)
        THEN replace_texture(p2, unwrap(storage.depth_texture),
                             TextureDepthProps(width, height))
        ELSE p2

Install(m) ==
    /\ ops' = ops + 1
    /\ vertices' = m.vertices
    /\ faces' = m.faces
    /\ next_index' = m.next_index
    /\ vertex_indices' = m.vertex_indices
    /\ panicked' = m.panicked

Init ==
    /\ vertices = MeshNew.vertices
    /\ faces = MeshNew.faces
    /\ next_index = MeshNew.next_index
    /\ vertex_indices = MeshNew.vertex_indices
    /\ panicked = MeshNew.panicked
    /\ last = [op |-> "new"]
    /\ ops = 0
    /\ inputs = <<>>
    /\ geometry_data = BufferedGeometryDataNew("Triangles")
    /\ call = [pc |-> "idle"]
    /\ painter = PainterNew

AddFace3(calls) ==
    /\ ~panicked
    /\ ops < MaxOps
    /\ total_faces(faces) < MaxFaces
    /\ \E c \in calls :
        /\ Install(add_face3_data(Mesh, c.vs[1], c.vs[2], c.vs[3], c.props))
        /\ last' = [op |-> "add_face3", vs |-> c.vs, props |-> c.props]

AddFace4(calls) ==
    /\ ~panicked
    /\ ops < MaxOps
    /\ total_faces(faces) < MaxFaces
    /\ \E c \in calls :
        /\ Install(add_face4_data(Mesh, c.vs[1], c.vs[2], c.vs[3], c.vs[4], c.props))
        /\ last' = [op |-> "add_face4", vs |-> c.vs, props |-> c.props]

\* remove_face on every slot of every section, on the slot one past the end
\* of a list and on a section that has no list.
RemoveFace ==
    /\ ~panicked
    /\ ops < MaxOps
    /\ \E s \in Sections :
        \E i \in 0 .. (IF s \in DOMAIN faces THEN Len(faces[s]) ELSE 0) :
            /\ Install(remove_face(Mesh, SectionIndex(s, i)))
            /\ last' = [op |-> "remove_face", face_idx |-> SectionIndex(s, i)]

Emit ==
    /\ ~panicked
    /\ ops < MaxOps
    /\ \E geom_type \in MeshBufferType :
        \E m1 \in {to_renderable_buffer_by_type(Mesh, geom_type)} :
            /\ Install(m1)
            /\ last' = [op |-> "emit", geom_type |-> geom_type,
                        result |-> emit_result(m1, geom_type)]

\* to_buffered_geometry_by_type in every mode.
EmitBuffered ==
    /\ ~panicked
    /\ ops < MaxOps
    /\ \E geom_type \in MeshBufferType :
        \E m1 \in {to_renderable_buffer_by_type(Mesh, geom_type)} :
            /\ Install(m1)
            /\ last' = [op |-> "emit_buffered", geom_type |-> geom_type,
                        result |-> buffered_result(m1, geom_type)]

\* calculate_vertex_normal on the face list of a section whose faces all
\* have a normal, for every list of at most MaxIndices of its indices; the
\* function reads the mesh only.
CalculateVertexNormal ==
    /\ ~panicked
    /\ ops < MaxOps
    /\ \E s \in DOMAIN faces :
        /\ \A k \in 1 .. Len(faces[s]) : is_some(faces[s][k].face_normal)
        /\ \E n \in 0 .. MaxIndices :
            \E face_indices \in [1 .. n -> 0 .. Len(faces[s]) - 1] :
                /\ Install(Mesh)
                /\ last' = [op |-> "calculate_vertex_normal", section |-> s,
                            face_indices |-> face_indices,
                            result |-> calculate_vertex_normal(faces[s],
                                                               face_indices)]

\* set_vertex on every entry and on the index one past the last entry; the
\* payload the entry held before is kept for the properties.
SetVertex ==
    /\ ~panicked
    /\ ops < MaxOps
    /\ \E i \in 0 .. Len(vertices), p \in Corners :
        /\ Install(set_vertex(Mesh, i, Payload(Points[p], 1)))
        /\ last' = [op |-> "set_vertex", vertex_idx |-> i,
                    data |-> Payload(Points[p], 1),
                    old |-> IF i < Len(vertices)
                            THEN Some(vertices[i + 1].data) ELSE None]

GetVertexIndex ==
    /\ ~panicked
    /\ ops < MaxOps
    /\ \E p \in Corners :
        LET r == get_vertex_index(Mesh, Points[p])
        IN  /\ Install(r.m)
            /\ last' = [op |-> "get_vertex_index", pos |-> Points[p],
                        idx |-> r.idx]

Next ==
    \/ AddFace3(Face3Calls) /\ UNCHANGED <<inputs, rendering_vars>>
    \/ AddFace4(Face4Calls) /\ UNCHANGED <<inputs, rendering_vars>>
    \/ RemoveFace /\ UNCHANGED <<inputs, rendering_vars>>
    \/ Emit /\ UNCHANGED <<inputs, rendering_vars>>

Spec == Init /\ [][Next]_vars

\* The whole public interface, on fewer face inputs.
ApiFace3Calls ==
    {Call(ps, 0, FaceDataPropsDefault) : ps \in Tri3 \cup Tri3Repeated}

ApiFace4Calls ==
    {Call(ps, 0, FaceDataPropsDefault) : ps \in Quad4 \cup Quad4Repeated}

NextApi ==
    \/ AddFace3(ApiFace3Calls) /\ UNCHANGED <<inputs, rendering_vars>>
    \/ AddFace4(ApiFace4Calls) /\ UNCHANGED <<inputs, rendering_vars>>
    \/ RemoveFace /\ UNCHANGED <<inputs, rendering_vars>>
    \/ Emit /\ UNCHANGED <<inputs, rendering_vars>>
    \/ SetVertex /\ UNCHANGED <<inputs, rendering_vars>>
    \/ GetVertexIndex /\ UNCHANGED <<inputs, rendering_vars>>

SpecApi == Init /\ [][NextApi]_vars

\* Face additions only, over all six points, recording the positions given.
AddTri3 == {<<1, 2, 3>>, <<1, 3, 4>>, <<4, 5, 6>>, <<2, 5, 6>>, <<3, 6, 5>>,
            <<2, 3, 5>>, <<1, 2, 1>>}

AddQuad4 == {<<1, 2, 3, 4>>, <<2, 5, 6, 3>>, <<1, 5, 6, 4>>, <<1, 2, 3, 1>>}

positions_of(vs) == [k \in 1 .. Len(vs) |-> position(vs[k])]

RecordInputs ==
    inputs' = IF panicked' THEN inputs ELSE inputs \o positions_of(last'.vs)

NextAdd ==
    \/ AddFace3({Call(ps, 0, FaceDataPropsDefault) : ps \in AddTri3}) /\ RecordInputs /\ UNCHANGED rendering_vars
    \/ AddFace4({Call(ps, 0, FaceDataPropsDefault) : ps \in AddQuad4}) /\ RecordInputs /\ UNCHANGED rendering_vars

SpecAdd == Init /\ [][NextAdd]_vars

\* Face additions, removals and emissions on the faces of the unit quad:
\* two triangles of one winding, one of the other, and the quad, each plain,
\* in section 1, or with explicit normal and override payload.
EmitTri3 == {<<1, 2, 3>>, <<1, 3, 2>>, <<1, 3, 4>>}

EmitQuad4 == {<<1, 2, 3, 4>>}

EmitKinds == {<<0, FaceDataPropsDefault>>, <<0, PropsSection>>,
              <<1, PropsNormalData>>}

EmitFace3Calls == {Call(ps, k[1], k[2]) : ps \in EmitTri3, k \in EmitKinds}

EmitFace4Calls == {Call(ps, k[1], k[2]) : ps \in EmitQuad4, k \in EmitKinds}

NextEmit ==
    \/ AddFace3(EmitFace3Calls) /\ UNCHANGED <<inputs, rendering_vars>>
    \/ AddFace4(EmitFace4Calls) /\ UNCHANGED <<inputs, rendering_vars>>
    \/ RemoveFace /\ UNCHANGED <<inputs, rendering_vars>>
    \/ Emit /\ UNCHANGED <<inputs, rendering_vars>>

SpecEmit == Init /\ [][NextEmit]_vars

\* Face additions and the two emission entry points.
NextBuffered ==
    \/ AddFace3(EmitFace3Calls) /\ UNCHANGED <<inputs, rendering_vars>>
    \/ AddFace4(EmitFace4Calls) /\ UNCHANGED <<inputs, rendering_vars>>
    \/ Emit /\ UNCHANGED <<inputs, rendering_vars>>
    \/ EmitBuffered /\ UNCHANGED <<inputs, rendering_vars>>

SpecBuffered == Init /\ [][NextBuffered]_vars

\* Normals: the unit quad, a quad whose first three points lie on one line,
\* a quad given the same point twice, two triangles of opposite winding,
\* vertices moved by set_vertex, emissions and vertex normals.
NormalTri3 == {<<1, 2, 3>>, <<1, 3, 2>>}

NormalQuad4 == {<<1, 2, 3, 4>>, <<1, 2, 5, 3>>, <<1, 1, 2, 3>>}

NormalFace3Calls == {Call(ps, 0, FaceDataPropsDefault) : ps \in NormalTri3}

NormalFace4Calls == {Call(ps, 0, FaceDataPropsDefault) : ps \in NormalQuad4}

NextNormals ==
    \/ AddFace3(NormalFace3Calls) /\ UNCHANGED <<inputs, rendering_vars>>
    \/ AddFace4(NormalFace4Calls) /\ UNCHANGED <<inputs, rendering_vars>>
    \/ SetVertex /\ UNCHANGED <<inputs, rendering_vars>>
    \/ Emit /\ UNCHANGED <<inputs, rendering_vars>>
    \/ CalculateVertexNormal /\ UNCHANGED <<inputs, rendering_vars>>

SpecNormals == Init /\ [][NextNormals]_vars

\* Emission after emission: the unit quad, a quad whose 4th point is off
\* the plane of the first three, a quad whose first three points lie on one
\* line, and a triangle, all without explicit normal; the positions given
\* are recorded.
HistoryTri3 == {<<1, 2, 3>>}

HistoryQuad4 == {<<1, 2, 3, 4>>, <<1, 2, 4, 7>>, <<1, 2, 5, 3>>}

HistoryFace3Calls == {Call(ps, 0, FaceDataPropsDefault) : ps \in HistoryTri3}

HistoryFace4Calls == {Call(ps, 0, FaceDataPropsDefault) : ps \in HistoryQuad4}

NextHistory ==
    \/ AddFace3(HistoryFace3Calls) /\ RecordInputs /\ UNCHANGED rendering_vars
    \/ AddFace4(HistoryFace4Calls) /\ RecordInputs /\ UNCHANGED rendering_vars
    \/ Emit /\ UNCHANGED <<inputs, rendering_vars>>

SpecHistory == Init /\ [][NextHistory]_vars

\* The attribute buffers: attributes 0 and 1 in every format of the model,
\* values of every variant, and to_buffered_geometry, whose while loop is
\* taken one pass at a time.
AttrIndices ==
    {attr_idx("position", f, 0) : f \in Formats}
        \cup {attr_idx("color", f, 1) : f \in Formats}

AttrValues == {VertexAttributeValue(v, c) : v \in ValueVariants, c \in {0, 1}}

InitAttribute ==
    /\ ~panicked
    /\ ops < MaxOps
    /\ call.pc = "idle"
    /\ \E idx \in AttrIndices :
        /\ geometry_data' = init_attribute(geometry_data, idx)
        /\ last' = [op |-> "init_attribute", attr_idx |-> idx]
    /\ ops' = ops + 1
    /\ UNCHANGED <<panicked, call>>

\* add_value; the unwrap of the attribute looked up panics when the
\* attribute was not initialised.
AddValue ==
    /\ ~panicked
    /\ ops < MaxOps
    /\ call.pc = "idle"
    /\ \E idx \in {0, 1}, value \in AttrValues :
        /\ last' = [op |-> "add_value", idx |-> idx, value |-> value]
        /\ IF idx \in DOMAIN geometry_data.attributes
           THEN /\ geometry_data' = add_value(geometry_data, idx, value)
                /\ panicked' = FALSE
           ELSE /\ geometry_data' = geometry_data
                /\ panicked' = TRUE
    /\ ops' = ops + 1
    /\ UNCHANGED call

\* to_buffered_geometry up to its while loop.
ToBufferedGeometry ==
    /\ ~panicked
    /\ ops < MaxOps
    /\ call.pc = "idle"
    /\ call' = to_buffered_geometry_enter(geometry_data)
    /\ last' = [op |-> "to_buffered_geometry", result |-> None]
    /\ ops' = ops + 1
    /\ UNCHANGED <<panicked, geometry_data>>

\* One pass of the while loop of to_buffered_geometry: the for loop over
\* the attributes, then vertex_count += 1, which at the end of usize wraps
\* in a release build and panics in a debug build.
WhileHasValues ==
    /\ ~panicked
    /\ call.pc = "loop"
    /\ call.has_values
    /\ \E f \in {append_values(geometry_data,
                               sorted_keys(DOMAIN geometry_data.attributes),
                               call)} :
        \/ /\ f.pc = "panicked"
           /\ call' = f
           /\ panicked' = TRUE
        \/ /\ f.pc # "panicked"
           /\ f.vertex_count + 1 < Pow2(UsizeWidth)
           /\ call' = [f EXCEPT !.vertex_count = @ + 1]
           /\ panicked' = FALSE
        \/ /\ f.pc # "panicked"
           /\ f.vertex_count + 1 = Pow2(UsizeWidth)
           /\ \/ /\ call' = [f EXCEPT !.vertex_count = 0]
                 /\ panicked' = FALSE
              \/ /\ call' = [f EXCEPT !.pc = "panicked"]
                 /\ panicked' = TRUE
    /\ UNCHANGED <<last, ops, geometry_data>>

\* to_buffered_geometry after its while loop.
ToBufferedGeometryReturn ==
    /\ ~panicked
    /\ call.pc = "loop"
    /\ ~call.has_values
    /\ last' = [last EXCEPT
                   !.result = Some(to_buffered_geometry_return(geometry_data,
                                                               call))]
    /\ call' = [pc |-> "idle"]
    /\ UNCHANGED <<panicked, ops, geometry_data>>

NextData ==
    \/ InitAttribute /\ UNCHANGED <<mesh_vars, painter>>
    \/ AddValue /\ UNCHANGED <<mesh_vars, painter>>
    \/ ToBufferedGeometry /\ UNCHANGED <<mesh_vars, painter>>
    \/ WhileHasValues /\ UNCHANGED <<mesh_vars, painter>>
    \/ ToBufferedGeometryReturn /\ UNCHANGED <<mesh_vars, painter>>

SpecData == Init /\ [][NextData]_vars

\* A call of to_buffered_geometry runs on: a pass of its loop that can be
\* taken is taken, and so is its return.
SpecDataLive ==
    /\ Init
    /\ [][NextData]_vars
    /\ WF_vars(WhileHasValues /\ UNCHANGED <<mesh_vars, painter>>)
    /\ WF_vars(ToBufferedGeometryReturn /\ UNCHANGED <<mesh_vars, painter>>)

\* The layers: sizes with and without a zero, the size of the window and
\* another one, with and without a sketch that tests depth and a format.
LayerSizes == {<<0, 0>>, <<0, 1>>, <<2, 2>>, <<1, 2>>}

LayerPropsGiven ==
    {LayerProps(s, size[1], size[2], f) :
        s \in {<<0>>, <<0, 1>>}, size \in LayerSizes,
        f \in {None, Some("Rgba8Unorm")}}

LayerNew ==
    /\ ~panicked
    /\ ops < MaxOps
    /\ Len(painter.layers) < MaxLayers
    /\ \E props \in LayerPropsGiven :
        \E r \in {Layer_new(painter, props)} :
            /\ painter' = r.painter
            /\ last' = [op |-> "layer_new", layer |-> r.layer,
                        width |-> props.width, height |-> props.height]
    /\ ops' = ops + 1
    /\ UNCHANGED panicked

LayerResize ==
    /\ ~panicked
    /\ ops < MaxOps
    /\ \E layer \in 0 .. Len(painter.layers) - 1, size \in LayerSizes :
        /\ painter' = Layer_resize(painter, layer, size[1], size[2])
        /\ last' = [op |-> "layer_resize", layer |-> layer,
                    width |-> size[1], height |-> size[2]]
    /\ ops' = ops + 1
    /\ UNCHANGED panicked

LayerGetUniform ==
    /\ ~panicked
    /\ ops < MaxOps
    /\ \E layer \in 0 .. Len(painter.layers) - 1 :
        \E r \in {Layer_get_uniform(painter, layer)} :
            /\ painter' = r.painter
            /\ last' = [op |-> "layer_get_uniform", layer |-> layer,
                        uniform |-> r.uniform]
    /\ ops' = ops + 1
    /\ UNCHANGED panicked

NextLayer ==
    \/ LayerNew /\ UNCHANGED <<mesh_vars, geometry_data, call>>
    \/ LayerResize /\ UNCHANGED <<mesh_vars, geometry_data, call>>
    \/ LayerGetUniform /\ UNCHANGED <<mesh_vars, geometry_data, call>>

SpecLayer == Init /\ [][NextLayer]_vars

---------------------------------------------------------------------------
\* Properties.

InSeq(x, s) == \E k \in 1 .. Len(s) : s[k] = x

Count(x, s) == Cardinality({k \in 1 .. Len(s) : s[k] = x})

\* (a) every back-reference of every vertex names a slot that holds a face
\* listing the vertex.
RefsResolve ==
    \A v \in 1 .. Len(vertices) : \A k \in 1 .. Len(vertices[v].faces) :
        LET si == vertices[v].faces[k]
        IN  /\ si.section \in DOMAIN faces
            /\ si.index < Len(faces[si.section])
            /\ InSeq(v - 1, faces[si.section][si.index + 1].vertices)

\* (b) every vertex id of every face is an entry of the vertex store whose
\* back-references hold the face's slot.
FacesReferenced ==
    \A s \in DOMAIN faces : \A k \in 1 .. Len(faces[s]) :
        \A j \in 1 .. Len(faces[s][k].vertices) :
            LET id == faces[s][k].vertices[j]
            IN  /\ id < Len(vertices)
                /\ InSeq(SectionIndex(s, k - 1), vertices[id + 1].faces)

\* C1: bidirectional consistency of back-references and faces holds in
\* every state reached by add_face3/add_face4, remove_face and emission.
C1_BidirectionalConsistency == RefsResolve /\ FacesReferenced

\* A remove_face call that returned after moving the last face of the
\* section into the vacated slot.
RemoveMovedFace ==
    /\ last.op = "remove_face"
    /\ ~panicked
    /\ last.face_idx.index < Len(faces[last.face_idx.section])

\* C1 witness: a remove_face moved a face that shares a vertex with another
\* face of the mesh.
C1_Witness ==
    /\ RemoveMovedFace
    /\ \E v \in 1 .. Len(vertices) : Len(vertices[v].faces) >= 2

\* The step is a remove_face call on a slot that holds a face.
RemoveValidStep ==
    /\ last'.op = "remove_face"
    /\ last'.face_idx.section \in DOMAIN faces
    /\ last'.face_idx.index < Len(faces[last'.face_idx.section])

C2_Step ==
    RemoveValidStep =>
        LET sec == last'.face_idx.section
            i == last'.face_idx.index
            old == faces[sec]
            n == Len(old)
        IN  /\ ~panicked'
            /\ Len(faces'[sec]) = n - 1
            /\ \A k \in 1 .. (n - 1) :
                  faces'[sec][k] = IF k = i + 1 THEN old[n] ELSE old[k]
            /\ \A v \in 1 .. Len(vertices') :
                  /\ ~InSeq(SectionIndex(sec, n - 1), vertices'[v].faces)
                  /\ InSeq(SectionIndex(sec, i), vertices'[v].faces)
                        => (i < n - 1 /\ InSeq(v - 1, old[n].vertices))

\* C2: remove_face on a valid slot shortens the section's list by one, puts
\* the former last face into the vacated slot (nothing, if the slot was the
\* last), keeps every other slot, and leaves no back-reference to the
\* removed face: the old last slot is referenced by no vertex and the
\* vacated slot only by the vertices of the face that moved into it.
C2_RemoveFaceSwapRemoves == [][C2_Step]_vars

\* C2 witness: a remove_face of a slot other than the last returned, in a
\* section that held at least three faces.
C2_Witness ==
    /\ RemoveMovedFace
    /\ Len(faces[last.face_idx.section]) >= 2
    /\ last.face_idx.index = 0

NoDuplicateRefs ==
    \A v \in 1 .. Len(vertices) : \A k \in 1 .. Len(vertices[v].faces) :
        Count(vertices[v].faces[k], vertices[v].faces) = 1

C3_Step ==
    /\ NoDuplicateRefs'
    /\ (RemoveValidStep
            /\ last'.face_idx.index < Len(faces[last'.face_idx.section]) - 1)
        => LET sec == last'.face_idx.section
               i == last'.face_idx.index
               n == Len(faces[sec])
               moved == faces[sec][n].vertices
           IN  \A j \in 1 .. Len(moved) :
                  /\ Count(SectionIndex(sec, n - 1), vertices[moved[j] + 1].faces) = 1
                  /\ Count(SectionIndex(sec, i), vertices'[moved[j] + 1].faces) = 1
                  /\ Count(SectionIndex(sec, n - 1), vertices'[moved[j] + 1].faces) = 0

\* C3: when remove_face moves the last face into the vacated slot, each
\* vertex of the moved face held exactly one reference to the old last slot
\* and afterwards holds exactly one to the new slot and none to the old; no
\* back-reference list ever holds the same SectionIndex twice.
C3_OneStaleReference == NoDuplicateRefs /\ [][C3_Step]_vars

\* C3 witness: remove_face moved a face one of whose vertices also belonged
\* to the removed face.
C3_Witness ==
    /\ RemoveMovedFace
    /\ last.face_idx.index = 0
    /\ \E v \in 1 .. Len(vertices) :
          /\ InSeq(last.face_idx, vertices[v].faces)
          /\ Len(vertices[v].faces) >= 2

AddOps == {"add_face3", "add_face4"}

\* Two of the payloads have the same position.
RepeatedPositions(vs) ==
    \E i, j \in 1 .. Len(vs) : i < j /\ position(vs[i]) = position(vs[j])

\* C4: an add_face3/add_face4 call whose payloads repeat a position is
\* reported to the caller as an error; it does not abort (panic).
C4_RepeatedPositionReported ==
    (last.op \in AddOps /\ RepeatedPositions(last.vs)) => ~panicked

\* C5: after every public operation that returned, the vertex store has as
\* many entries as ids have been assigned.
C5_VertexCountIsNextIndex == ~panicked => Len(vertices) = next_index

NewKeys == DOMAIN vertex_indices' \ DOMAIN vertex_indices

C6_Step ==
    /\ \A k \in DOMAIN vertex_indices :
          k \in DOMAIN vertex_indices' /\ vertex_indices'[k] = vertex_indices[k]
    /\ \A k \in NewKeys :
          next_index <= vertex_indices'[k] /\ vertex_indices'[k] < next_index'
    /\ \A k1, k2 \in NewKeys : k1 # k2 => vertex_indices'[k1] # vertex_indices'[k2]
    /\ next_index' = next_index + Cardinality(NewKeys)
    /\ last'.op = "get_vertex_index" =>
          LET k == VertIdx3f(last'.pos)
          IN  /\ last'.idx = IF k \in DOMAIN vertex_indices
                             THEN vertex_indices[k] ELSE next_index
              /\ k \in DOMAIN vertex_indices'
              /\ vertex_indices'[k] = last'.idx
    /\ last'.op \in AddOps =>
          \A i, j \in 1 .. Len(last'.vs) :
              LET ki == VertIdx3f(position(last'.vs[i]))
                  kj == VertIdx3f(position(last'.vs[j]))
              IN  /\ ki \in DOMAIN vertex_indices'
                  /\ (/\ i < j /\ ki \in NewKeys /\ kj \in NewKeys /\ ki # kj
                      /\ \A l \in 1 .. (j - 1) :
                            VertIdx3f(position(last'.vs[l])) # kj)
                        => vertex_indices'[ki] < vertex_indices'[kj]

\* C6: a position that has an id keeps it over every call (add_face,
\* remove_face, emission, set_vertex, get_vertex_index); a position without
\* one gets the next sequential id, in first-seen order; get_vertex_index
\* returns the id the position resolves to.
C6_PositionDedup == [][C6_Step]_vars

\* C6 witness: get_vertex_index returned the id that an earlier add_face
\* call had assigned to the position, after later ids had been assigned.
C6_Witness ==
    /\ last.op = "get_vertex_index"
    /\ Len(vertices) >= 3
    /\ last.idx + 1 < Len(vertices)
    /\ position(vertices[last.idx + 1].data) = last.pos

\* C7: no two vertex entries have the same position, and the position index
\* maps the position of each entry to the entry's id.
C7_OneVertexPerPosition ==
    ~panicked =>
        /\ \A v, w \in 1 .. Len(vertices) :
              v # w => position(vertices[v].data) # position(vertices[w].data)
        /\ \A v \in 1 .. Len(vertices) :
              LET k == VertIdx3f(position(vertices[v].data))
              IN  k \in DOMAIN vertex_indices /\ vertex_indices[k] = v - 1

\* Triangle-equivalent face count: a quad counts as two.
TriangleEquivalent ==
    LET RECURSIVE sum(_, _)
        sum(fs, n) == IF n = 0 THEN 0
                      ELSE (IF Len(fs[n].vertices) = 4 THEN 2 ELSE 1) + sum(fs, n - 1)
        RECURSIVE all(_)
        all(S) == IF S = {} THEN 0
                  ELSE LET s == CHOOSE x \in S : TRUE
                       IN  sum(faces[s], Len(faces[s])) + all(S \ {s})
    IN  all(DOMAIN faces)

\* No two of the positions given to the add_face calls are the same.
InputsDistinct ==
    \A i, j \in 1 .. Len(inputs) : i < j => inputs[i] # inputs[j]

QuadAdded ==
    \E s \in DOMAIN faces : \E k \in 1 .. Len(faces[s]) :
        Len(faces[s][k].vertices) = 4

\* C8 as stated: over face additions, vertex count <= 3 x triangle-equivalent
\* face count, with equality iff no two input positions are the same.
C8_EqualityIffDistinct ==
    ~panicked =>
        /\ Len(vertices) <= 3 * TriangleEquivalent
        /\ (Len(vertices) = 3 * TriangleEquivalent) <=> InputsDistinct

\* C8 amended: vertex count <= 3 x triangle-equivalent face count, with
\* equality iff no quad was added and no two input positions are the same.
C8_EqualityIffDistinctTriangles ==
    ~panicked =>
        /\ Len(vertices) <= 3 * TriangleEquivalent
        /\ (Len(vertices) = 3 * TriangleEquivalent)
              <=> (InputsDistinct /\ ~QuadAdded)

\* C8 witness: two triangles over six different positions, six vertices.
C8_Witness ==
    /\ ~panicked
    /\ Len(inputs) = 6
    /\ InputsDistinct
    /\ Len(vertices) = 6
    /\ TriangleEquivalent = 2

\* The step is an add_face3/add_face4 call that returned.
AddStep == last'.op \in AddOps /\ ~panicked'

AddSection == unwrap_or(last'.props.section, 0)

AddIndex == IF AddSection \in DOMAIN faces THEN Len(faces[AddSection]) ELSE 0

C9_Step ==
    AddStep =>
        LET f == faces'[AddSection][AddIndex + 1]
        IN  /\ DOMAIN faces' = DOMAIN faces \cup {AddSection}
            /\ Len(faces'[AddSection]) = AddIndex + 1
            /\ Len(f.vertices) = Len(last'.vs)
            /\ \A j \in 1 .. Len(last'.vs) :
                  /\ f.vertices[j] = vertex_indices'[VertIdx3f(position(last'.vs[j]))]
                  /\ LET refs == vertices'[f.vertices[j] + 1].faces
                     IN  refs[Len(refs)] = SectionIndex(AddSection, AddIndex)
            /\ f.face_normal = last'.props.normal
            /\ f.data = last'.props.data
            /\ \A s \in DOMAIN faces :
                  /\ s # AddSection => Len(faces'[s]) = Len(faces[s])
                  /\ \A k \in 1 .. Len(faces[s]) : faces'[s][k] = faces[s][k]

\* C9: add_face3/add_face4 append the face at the end of the list of section
\* props.section (0 when none is given); the SectionIndex registered with
\* its vertices is (section, length of the list before the call); every face
\* already stored keeps its slot.
C9_AppendsAtEnd == [][C9_Step]_vars

\* C9 witness: a face was added to section 1 behind another face of section
\* 1.
C9_Witness ==
    /\ last.op \in AddOps
    /\ ~panicked
    /\ last.props.section = Some(1)
    /\ Len(faces[1]) = 2

C10_Step ==
    AddStep =>
        LET si == SectionIndex(AddSection, AddIndex)
            ids == {vertex_indices'[VertIdx3f(position(last'.vs[j]))] :
                        j \in 1 .. Len(last'.vs)}
        IN  /\ \A j \in 1 .. Len(last'.vs) :
                  LET k == VertIdx3f(position(last'.vs[j]))
                      id == vertex_indices'[k]
                  IN  /\ id < Len(vertices')
                      /\ vertices'[id + 1].data = last'.vs[j]
                      /\ IF k \in DOMAIN vertex_indices
                         THEN /\ vertex_indices[k] = id
                              /\ id < Len(vertices)
                              /\ vertices'[id + 1].faces =
                                    Append(vertices[id + 1].faces, si)
                         ELSE /\ id >= Len(vertices)
                              /\ vertices'[id + 1].faces = <<si>>
            /\ \A w \in 1 .. Len(vertices) :
                  (w - 1) \notin ids => vertices'[w] = vertices[w]

\* C10: an add_face3/add_face4 payload whose position already has an id
\* replaces that vertex's payload, keeps its id and its back-references and
\* appends the new face's SectionIndex; a position seen for the first time
\* gets a new entry with the payload; other vertices are untouched.
C10_LastWriteWins == [][C10_Step]_vars

\* C10 witness: the last add_face call wrote tag t to a vertex that an
\* earlier face shares with a vertex still carrying the other tag.
C10_Witness ==
    /\ last.op \in AddOps
    /\ ~panicked
    /\ \E v, w \in 1 .. Len(vertices) :
          /\ Len(vertices[v].faces) >= 2
          /\ vertices[v].data = last.vs[1]
          /\ vertices[w].data.tag # last.vs[1].tag
          /\ vertices[w].faces[1] = vertices[v].faces[1]

---------------------------------------------------------------------------
\* Triangulation, observed on the emission calls that run it.

EmitStep == last'.op = "emit"

EmitReturned == last'.op = "emit" /\ ~panicked'

\* The number of faces of a list that have n vertices.
faces_with(fs, n) == Cardinality({k \in 1 .. Len(fs) : Len(fs[k].vertices) = n})

has_quad(fs) == \E s \in DOMAIN fs : faces_with(fs[s], 4) > 0

\* C11: after triangulate no section holds a face of 4 vertices, each
\* section holds its prior triangles plus two faces per prior quad, all of
\* 3 vertices, and the vertex count, the vertex ids and the vertex payloads
\* are as before.
C11_Step ==
    EmitStep =>
        /\ DOMAIN faces' = DOMAIN faces
        /\ \A s \in DOMAIN faces :
              /\ faces_with(faces'[s], 4) = 0
              /\ faces_with(faces'[s], 3) = Len(faces'[s])
              /\ Len(faces'[s]) = faces_with(faces[s], 3) + 2 * faces_with(faces[s], 4)
        /\ Len(vertices') = Len(vertices)
        /\ \A v \in 1 .. Len(vertices) : vertices'[v].data = vertices[v].data
        /\ vertex_indices' = vertex_indices
        /\ next_index' = next_index

C11_TriangulateNetEffect == [][C11_Step]_vars

\* An emission that returned and left a section of four faces: two quads
\* were triangulated there.
C11_Witness ==
    /\ last.op = "emit"
    /\ ~panicked
    /\ \E s \in DOMAIN faces : Len(faces[s]) = 4

\* C12: triangulate on a mesh without quads leaves every face list and
\* every back-reference list exactly as it was.
C12_Step ==
    (EmitStep /\ ~has_quad(faces)) =>
        LET pre == before_triangulate(Mesh, last'.geom_type)
        IN  /\ faces' = pre.faces
            /\ vertices' = pre.vertices
            /\ \A s \in DOMAIN faces : \A k \in 1 .. Len(faces[s]) :
                  faces'[s][k].vertices = faces[s][k].vertices
            /\ \A v \in 1 .. Len(vertices) : vertices'[v].faces = vertices[v].faces

C12_TriangulateIdempotent == [][C12_Step]_vars

\* An emission that returned on a section of two triangles that do not come
\* from one quad (their override payloads differ), one of whose vertices has
\* two back-references.
C12_Witness ==
    /\ last.op = "emit"
    /\ ~panicked
    /\ \E s \in DOMAIN faces :
          /\ Len(faces[s]) = 2
          /\ faces[s][1].data # faces[s][2].data
    /\ \E v \in 1 .. Len(vertices) : Len(vertices[v].faces) = 2

\* The two triangles of the quad q.
first_triangle(q) ==
    Face(<<q.vertices[1], q.vertices[2], q.vertices[3]>>, q.face_normal, q.data)

second_triangle(q) ==
    Face(<<q.vertices[1], q.vertices[3], q.vertices[4]>>, q.face_normal, q.data)

\* The faces a list must hold after triangulation, as a set of values.
expected_faces(fs) ==
    {fs[i] : i \in {k \in 1 .. Len(fs) : Len(fs[k].vertices) = 3}}
    \cup {first_triangle(fs[i]) : i \in {k \in 1 .. Len(fs) : Len(fs[k].vertices) = 4}}
    \cup {second_triangle(fs[i]) : i \in {k \in 1 .. Len(fs) : Len(fs[k].vertices) = 4}}

\* How often the face f must occur after triangulation of the list fs.
expected_count(f, fs) ==
    Cardinality({i \in 1 .. Len(fs) : Len(fs[i].vertices) = 3 /\ fs[i] = f})
    + Cardinality({i \in 1 .. Len(fs) :
                      Len(fs[i].vertices) = 4 /\ first_triangle(fs[i]) = f})
    + Cardinality({i \in 1 .. Len(fs) :
                      Len(fs[i].vertices) = 4 /\ second_triangle(fs[i]) = f})

\* C13: each quad (v0,v1,v2,v3) is replaced by exactly the triangles
\* (v0,v1,v2) and (v0,v2,v3), in that vertex order, both with the quad's
\* face normal and override payload: the faces of a section after
\* triangulation are its prior triangles and these two triangles per prior
\* quad, each as often as it is due, and nothing else.
C13_Step ==
    EmitStep =>
        \A pre \in {before_triangulate(Mesh, last'.geom_type).faces} :
            \A s \in DOMAIN pre :
                \A expected \in {expected_faces(pre[s])} :
                    /\ \A k \in 1 .. Len(faces'[s]) : faces'[s][k] \in expected
                    /\ \A f \in expected :
                          Count(f, faces'[s]) = expected_count(f, pre[s])

C13_QuadBecomesTwoTriangles == [][C13_Step]_vars

\* A NoNormals emission that left the two triangles of a quad given with an
\* explicit normal and an override payload.
C13_Witness ==
    /\ last.op = "emit"
    /\ last.geom_type = "NoNormals"
    /\ \E s \in DOMAIN faces : \E k \in 1 .. Len(faces[s]) :
          /\ k + 1 <= Len(faces[s])
          /\ faces[s][k].face_normal = Some(ExplicitNormal)
          /\ faces[s][k].data = Some(OverrideData)
          /\ faces[s][k + 1].face_normal = Some(ExplicitNormal)
          /\ faces[s][k + 1].data = Some(OverrideData)
          /\ faces[s][k].vertices[1] = faces[s][k + 1].vertices[1]
          /\ faces[s][k].vertices[3] = faces[s][k + 1].vertices[2]

---------------------------------------------------------------------------
\* The bundle an emission call returns.

\* The last call was an emission in one of the modes and returned.
Emitted(modes) ==
    /\ last.op = "emit"
    /\ last.geom_type \in modes
    /\ is_some(last.result)

Bundle == unwrap(last.result)

BundleIndices == unwrap_or(Bundle.index_buffer, <<>>)

\* The number of faces in the sections below s.
faces_below(s) == total_faces([t \in {u \in DOMAIN faces : u < s} |-> faces[t]])

\* C14: a NoNormals emission returns one record per vertex entry, in id
\* order, and three indices per triangle: face by face, section by section,
\* the vertex ids of the face, each below vertex_count.
C14_NoNormalsCounts ==
    Emitted({"NoNormals"}) =>
        /\ Bundle.vertex_count = Len(vertices)
        /\ Len(Bundle.vertex_buffer) = Len(vertices)
        /\ \A i \in 1 .. Len(vertices) :
              Bundle.vertex_buffer[i].data = vertices[i].data
        /\ Bundle.index_count = 3 * total_faces(faces)
        /\ Len(BundleIndices) = 3 * total_faces(faces)
        /\ \A s \in DOMAIN faces : \A k \in 1 .. Len(faces[s]) : \A j \in 1 .. 3 :
              BundleIndices[3 * (faces_below(s) + k - 1) + j] = faces[s][k].vertices[j]
        /\ \A k \in 1 .. Len(BundleIndices) : BundleIndices[k] < Bundle.vertex_count

\* A NoNormals emission of a mesh with faces in two sections, three
\* triangles in all.
C14_Witness ==
    /\ Emitted({"NoNormals"})
    /\ Cardinality({s \in DOMAIN faces : Len(faces[s]) > 0}) = 2
    /\ Bundle.index_count = 9

\* C15: FaceNormals and VertexNormalFaceData emissions return three records
\* per triangle, index_count 0 and no index buffer.
C15_UnrolledCounts ==
    Emitted({"FaceNormals", "VertexNormalFaceData"}) =>
        /\ Bundle.vertex_count = 3 * total_faces(faces)
        /\ Len(Bundle.vertex_buffer) = 3 * total_faces(faces)
        /\ Bundle.index_count = 0
        /\ is_none(Bundle.index_buffer)

\* A VertexNormalFaceData emission of a mesh of three triangles.
C15_Witness ==
    /\ Emitted({"VertexNormalFaceData"})
    /\ total_faces(faces) = 3
    /\ Bundle.vertex_count = 9

\* The (vertex, section) pairs such that the vertex belongs to a face of the
\* section.
vertex_section_pairs ==
    UNION {UNION {{<<faces[s][k].vertices[j], s>> :
                      j \in 1 .. Len(faces[s][k].vertices)} :
                  k \in 1 .. Len(faces[s])} :
           s \in DOMAIN faces}

\* C16: a VertexNormals emission returns one record per (vertex, section)
\* pair in which the vertex participates; a vertex used by several faces of
\* one section is emitted once for that section.
C16_OneRecordPerVertexAndSection ==
    Emitted({"VertexNormals"}) =>
        Bundle.vertex_count = Cardinality(vertex_section_pairs)

\* The mesh holds the single quad (0,0,0)-(1,0,0)-(1,1,0)-(0,1,0), added to
\* the default section by the first call, and the second call emitted it in
\* VertexNormals mode.
SingleQuadEmitted ==
    /\ Emitted({"VertexNormals"})
    /\ ops = 2
    /\ DOMAIN faces = {0}
    /\ Len(vertices) = 4
    /\ \A i \in 1 .. 4 : position(vertices[i].data) = Points[i]

\* C17: the single unit quad emitted in VertexNormals mode yields 4
\* vertices and 6 indices, and all emitted normals are identical.
C17_SingleQuadVertexNormals ==
    SingleQuadEmitted =>
        /\ Bundle.vertex_count = 4
        /\ Bundle.index_count = 6
        /\ \A i, j \in 1 .. Len(Bundle.vertex_buffer) :
              Bundle.vertex_buffer[i].normal = Bundle.vertex_buffer[j].normal

IndexedModes == {"NoNormals", "VertexNormals"}

\* C18 as stated: for every mesh, a returned bundle has an index buffer
\* exactly in the modes NoNormals and VertexNormals.
C18_IndexBufferByMode ==
    Emitted(MeshBufferType) =>
        (is_some(Bundle.index_buffer) <=> last.geom_type \in IndexedModes)

\* C18, amended: a returned bundle has an index buffer exactly when the mode
\* is NoNormals or VertexNormals and the mesh holds at least one face; an
\* empty index list is returned as no index buffer.
C18_IndexBufferByModeAndFaces ==
    Emitted(MeshBufferType) =>
        (is_some(Bundle.index_buffer)
            <=> (last.geom_type \in IndexedModes /\ total_faces(faces) > 0))

\* A VertexNormals emission of a mesh with two sections that returned an
\* index buffer.
C18_Witness ==
    /\ Emitted({"VertexNormals"})
    /\ is_some(Bundle.index_buffer)
    /\ Cardinality(DOMAIN faces) = 2

---------------------------------------------------------------------------
\* Side effects of emission, and sections.

all_normals_set(fs) ==
    \A s \in DOMAIN fs : \A k \in 1 .. Len(fs[s]) : is_some(fs[s][k].face_normal)

\* C19: after an emission returns no section holds a quad, and after one in
\* a mode with normals every face has a face normal; the calls that follow
\* work on these faces: remove_face only removes and moves faces, add_face
\* leaves the faces present as they are, emission keeps the normals set.
C19_Step ==
    /\ EmitReturned =>
          /\ ~has_quad(faces')
          /\ last'.geom_type # "NoNormals" => all_normals_set(faces')
          /\ all_normals_set(faces) => all_normals_set(faces')
    /\ (last'.op = "remove_face" /\ ~panicked') =>
          \A s \in DOMAIN faces' : \A k \in 1 .. Len(faces'[s]) :
              InSeq(faces'[s][k], faces[s])
    /\ (last'.op \in AddOps /\ ~panicked') =>
          \A s \in DOMAIN faces : \A k \in 1 .. Len(faces[s]) :
              faces'[s][k] = faces[s][k]

C19_EmissionEffectsPersist == [][C19_Step]_vars

\* A remove_face that returned and left a face whose normal an earlier
\* emission had computed.
C19_Witness ==
    /\ last.op = "remove_face"
    /\ ~panicked
    /\ \E s \in DOMAIN faces : \E k \in 1 .. Len(faces[s]) :
          /\ is_some(faces[s][k].face_normal)
          /\ faces[s][k].face_normal # Some(ExplicitNormal)

\* The back-references of a list into sections other than a.
refs_outside(refs, a) == SelectSeq(refs, LAMBDA si : si.section # a)

\* The section an add_face or remove_face call works on.
CallSection ==
    IF last'.op = "remove_face" THEN last'.face_idx.section ELSE AddSection

\* C20: add_face into section A and remove_face from section A leave the
\* face list of every other section and every back-reference into another
\* section unchanged.
C20_Step ==
    (last'.op \in AddOps \cup {"remove_face"}) =>
        /\ DOMAIN faces' \subseteq DOMAIN faces \cup {CallSection}
        /\ \A s \in DOMAIN faces \ {CallSection} :
              s \in DOMAIN faces' /\ faces'[s] = faces[s]
        /\ Len(vertices') >= Len(vertices)
        /\ \A v \in 1 .. Len(vertices') :
              refs_outside(vertices'[v].faces, CallSection)
                = IF v <= Len(vertices)
                  THEN refs_outside(vertices[v].faces, CallSection)
                  ELSE <<>>

C20_SectionsIndependent == [][C20_Step]_vars

\* A remove_face from section 0 that returned while section 1 holds a face
\* at the same index, one of whose vertices also keeps a face of section 0.
C20_Witness ==
    /\ last.op = "remove_face"
    /\ ~panicked
    /\ last.face_idx.section = 0
    /\ 1 \in DOMAIN faces
    /\ last.face_idx.index < Len(faces[1])
    /\ \E v \in 1 .. Len(vertices) :
          /\ InSeq(SectionIndex(1, last.face_idx.index), vertices[v].faces)
          /\ \E k \in 1 .. Len(vertices[v].faces) : vertices[v].faces[k].section = 0

---------------------------------------------------------------------------
\* Normals and payloads.

\* In the calls made here a face has the override payload exactly when it
\* was added with the explicit normal.
ExplicitNormalsKept ==
    \A s \in DOMAIN faces : \A k \in 1 .. Len(faces[s]) :
        (faces[s][k].data = Some(OverrideData))
            <=> (faces[s][k].face_normal = Some(ExplicitNormal))

\* C21: normal generation never overwrites a normal that is set: a face
\* added with an explicit normal keeps exactly that normal, unnormalised,
\* through generate_face_normals, triangulation and every emission, and
\* only the faces lacking a normal receive a computed one.
C21_Step ==
    EmitStep =>
        \A pre \in {before_triangulate(Mesh, last'.geom_type).faces} :
            \A s \in DOMAIN faces :
                /\ \A k \in 1 .. Len(faces[s]) :
                      /\ pre[s][k].vertices = faces[s][k].vertices
                      /\ pre[s][k].data = faces[s][k].data
                      /\ pre[s][k].face_normal =
                            IF is_some(faces[s][k].face_normal)
                               \/ last'.geom_type = "NoNormals"
                            THEN faces[s][k].face_normal
                            ELSE Some(computed_normal(vertices, faces[s][k].vertices))
                /\ \A j \in 1 .. Len(faces'[s]) : \E k \in 1 .. Len(pre[s]) :
                      /\ faces'[s][j].face_normal = pre[s][k].face_normal
                      /\ faces'[s][j].data = pre[s][k].data
                      /\ \A i \in 1 .. 3 :
                            InSeq(faces'[s][j].vertices[i], pre[s][k].vertices)

C21_ExplicitNormalKept == ExplicitNormalsKept /\ [][C21_Step]_vars

\* An emission with normals that returned and left a face with the explicit
\* normal next to a face with a computed one.
C21_Witness ==
    /\ last.op = "emit"
    /\ last.geom_type # "NoNormals"
    /\ ~panicked
    /\ \E s \in DOMAIN faces : \E j, k \in 1 .. Len(faces[s]) :
          /\ faces[s][j].face_normal = Some(ExplicitNormal)
          /\ is_some(faces[s][k].face_normal)
          /\ faces[s][k].face_normal # Some(ExplicitNormal)

UnrolledModes == {"VertexNormalFaceData", "FaceNormals"}

\* The place in an unrolled vertex buffer, or in an index buffer, of vertex
\* j of face k of section s (all counted from 1): faces follow each other
\* section by section, three entries each.
occurrence(s, k, j) == 3 * (faces_below(s) + k - 1) + j

\* C22: in VertexNormalFaceData and FaceNormals modes the payload written
\* for a face-vertex occurrence is the vertex payload overridden by the
\* face's override payload when the face has one, the plain vertex payload
\* otherwise; in NoNormals and VertexNormals modes every record holds the
\* plain payload of a vertex.
C22_OverrideInUnrolledModesOnly ==
    /\ Emitted(UnrolledModes) =>
          \A s \in DOMAIN faces : \A k \in 1 .. Len(faces[s]) : \A j \in 1 .. 3 :
              Bundle.vertex_buffer[occurrence(s, k, j)].data =
                  IF is_some(faces[s][k].data)
                  THEN override_with(vertices[faces[s][k].vertices[j] + 1].data,
                                     unwrap(faces[s][k].data))
                  ELSE vertices[faces[s][k].vertices[j] + 1].data
    /\ Emitted({"NoNormals"}) =>
          \A i \in 1 .. Len(Bundle.vertex_buffer) :
              Bundle.vertex_buffer[i].data = vertices[i].data
    /\ Emitted({"VertexNormals"}) =>
          /\ \A i \in 1 .. Len(Bundle.vertex_buffer) :
                \E v \in 1 .. Len(vertices) :
                    Bundle.vertex_buffer[i].data = vertices[v].data
          /\ \A s \in DOMAIN faces : \A k \in 1 .. Len(faces[s]) : \A j \in 1 .. 3 :
                Bundle.vertex_buffer[BundleIndices[occurrence(s, k, j)] + 1].data
                    = vertices[faces[s][k].vertices[j] + 1].data

\* A FaceNormals emission of a face with the override payload next to a
\* face without one: the records of the first carry the override's
\* attribute, those of the second the vertex's.
C22_Witness ==
    /\ Emitted({"FaceNormals"})
    /\ \E s \in DOMAIN faces : \E k, l \in 1 .. Len(faces[s]) :
          /\ is_some(faces[s][k].data)
          /\ is_none(faces[s][l].data)
          /\ Bundle.vertex_buffer[occurrence(s, k, 1)].data.tag = OverrideData.tag
          /\ Bundle.vertex_buffer[occurrence(s, l, 1)].data.tag # OverrideData.tag

\* The faces of section s that contain vertex v, by their place in the list.
faces_containing(v, s) == {k \in 1 .. Len(faces[s]) : InSeq(v, faces[s][k].vertices)}

\* The sum of component c of the face normals of the faces K of section s;
\* the face normals of the meshes built here have integer components.
RECURSIVE component_sum(_, _, _)
component_sum(s, K, c) ==
    IF K = {} THEN 0
    ELSE LET k == CHOOSE x \in K : TRUE
         IN  unwrap(faces[s][k].face_normal).num[c] + component_sum(s, K \ {k}, c)

\* The normalised sum of the face normals of the faces of section s that
\* contain vertex v; the zero vector when the sum is zero or not a number.
section_vertex_normal(v, s) ==
    LET K == faces_containing(v, s)
        total == <<component_sum(s, K, 1), component_sum(s, K, 2),
                   component_sum(s, K, 3)>>
    IN  IF total = <<0, 0, 0>>
           \/ \E k \in K : unwrap(faces[s][k].face_normal).den2 = 0
        THEN [num |-> <<0, 0, 0>>, den2 |-> 1]
        ELSE normalize(total)

\* Every face normal is a vector of integer components or not a number.
IntegerNormals ==
    \A s \in DOMAIN faces : \A k \in 1 .. Len(faces[s]) :
        is_some(faces[s][k].face_normal) =>
            unwrap(faces[s][k].face_normal).den2 \in {0, 1}

\* C23: in VertexNormals and VertexNormalFaceData modes the normal emitted
\* for vertex v in section S is the normalised sum of the face normals of
\* exactly the faces of S that contain v.
C23_PerSectionVertexNormals ==
    /\ IntegerNormals
    /\ Emitted({"VertexNormalFaceData"}) =>
          \A s \in DOMAIN faces : \A k \in 1 .. Len(faces[s]) : \A j \in 1 .. 3 :
              Bundle.vertex_buffer[occurrence(s, k, j)].normal =
                  Some(section_vertex_normal(faces[s][k].vertices[j], s))
    /\ Emitted({"VertexNormals"}) =>
          \A s \in DOMAIN faces : \A k \in 1 .. Len(faces[s]) : \A j \in 1 .. 3 :
              Bundle.vertex_buffer[BundleIndices[occurrence(s, k, j)] + 1].normal =
                  Some(section_vertex_normal(faces[s][k].vertices[j], s))

\* A VertexNormals emission in which a vertex of a face of section 0 and of
\* a face of section 1 got different normals for the two sections.
C23_Witness ==
    /\ Emitted({"VertexNormals"})
    /\ DOMAIN faces = {0, 1}
    /\ \E k \in 1 .. Len(faces[0]) : \E l \in 1 .. Len(faces[1]) :
          /\ faces[0][k].vertices[1] = faces[1][l].vertices[1]
          /\ Bundle.vertex_buffer[BundleIndices[occurrence(0, k, 1)] + 1].normal
                # Bundle.vertex_buffer[BundleIndices[occurrence(1, l, 1)] + 1].normal

\* size_of of the payload type: the bytes written for one payload.
payload_size == bytes_of_data(OverrideData)

\* to_buffered_geometry_by_type returned a geometry in one of the modes.
EmittedBuffered(modes) ==
    /\ last.op = "emit_buffered"
    /\ last.geom_type \in modes
    /\ is_some(last.result)

Geometry == unwrap(last.result)

NormalModes == MeshBufferType \ {"NoNormals"}

\* C24: the vertex buffer of a bundle is vertex_count x payload size bytes
\* long in NoNormals mode and vertex_count x (payload size + 12) bytes in the
\* three modes with normals, the index buffer is 4 x index_count bytes
\* long, and the layout of to_buffered_geometry_by_type is the payload's
\* declared layout followed by a "normal" Float32x3 field exactly when the
\* mode is not NoNormals.
C24_BundleSizesMatchLayout ==
    /\ Emitted({"NoNormals"}) =>
          vertex_buffer_len(Bundle.vertex_buffer)
              = Bundle.vertex_count * payload_size
    /\ Emitted(NormalModes) =>
          vertex_buffer_len(Bundle.vertex_buffer)
              = Bundle.vertex_count * (payload_size + 12)
    /\ Emitted(MeshBufferType) =>
          index_buffer_len(BundleIndices) = 4 * Bundle.index_count
    /\ EmittedBuffered({"NoNormals"}) =>
          /\ Len(Geometry.vertex_layout) = Len(vertex_layout)
          /\ \A i \in 1 .. Len(vertex_layout) :
                VertexType(Geometry.vertex_layout[i].name,
                           Geometry.vertex_layout[i].format) = vertex_layout[i]
          /\ Geometry.vertex_size = payload_size
    /\ EmittedBuffered(NormalModes) =>
          /\ Len(Geometry.vertex_layout) = Len(vertex_layout) + 1
          /\ \A i \in 1 .. Len(vertex_layout) :
                VertexType(Geometry.vertex_layout[i].name,
                           Geometry.vertex_layout[i].format) = vertex_layout[i]
          /\ Geometry.vertex_layout[Len(vertex_layout) + 1]
                = [name |-> "normal", format |-> "Float32x3",
                   offset |-> payload_size]
          /\ Geometry.vertex_size = payload_size + 12
          /\ vertex_buffer_len(Geometry.buffer)
                = Len(Geometry.buffer) * Geometry.vertex_size

\* to_buffered_geometry_by_type in VertexNormals mode returned records of
\* 28 bytes, an index buffer and a layout ending in the normal field.
C24_Witness ==
    /\ EmittedBuffered({"VertexNormals"})
    /\ is_some(Geometry.indices)
    /\ Len(Geometry.buffer) > 0
    /\ vertex_buffer_len(Geometry.buffer) = Len(Geometry.buffer) * 28
    /\ Geometry.vertex_layout[Len(Geometry.vertex_layout)].name = "normal"

UnitQuad == <<<<0, 0, 0>>, <<1, 0, 0>>, <<1, 1, 0>>, <<0, 1, 0>>>>

\* The positions of the vertices of a face, in the face's order.
face_positions(vs, face) ==
    [j \in 1 .. Len(face.vertices) |-> position(vs[face.vertices[j] + 1].data)]

\* The places of section s that hold the unit quad, added in the order of
\* UnitQuad, without a normal.
unit_quads(s) ==
    {k \in 1 .. Len(faces[s]) :
        /\ face_positions(vertices, faces[s][k]) = UnitQuad
        /\ is_none(faces[s][k].face_normal)}

\* C25: the unit quad at (0,0,0), (1,0,0), (1,1,0), (0,1,0), added in that
\* order, gets the unit normal (0,0,+1) from generate_face_normals: the
\* mesh handed to triangulate holds it on the quad, and the mesh the
\* emission leaves holds it on the two triangles of the quad.
C25_Step ==
    (EmitReturned /\ last'.geom_type # "NoNormals") =>
        \A pre \in {before_triangulate(Mesh, last'.geom_type).faces} :
            \A s \in DOMAIN faces : \A k \in unit_quads(s) :
                /\ pre[s][k].face_normal = Some([num |-> <<0, 0, 1>>, den2 |-> 1])
                /\ pre[s][k].face_normal =
                      Some(normalize(cross(vsub(UnitQuad[2], UnitQuad[1]),
                                           vsub(UnitQuad[3], UnitQuad[1]))))
                /\ InSeq(first_triangle(pre[s][k]), faces'[s])
                /\ InSeq(second_triangle(pre[s][k]), faces'[s])

C25_UnitQuadNormal == [][C25_Step]_vars

\* An emission with normals left the two triangles of the unit quad, both
\* with the normal (0,0,+1).
C25_Witness ==
    /\ last.op = "emit"
    /\ last.geom_type = "FaceNormals"
    /\ ~panicked
    /\ \E s \in DOMAIN faces : \E k, l \in 1 .. Len(faces[s]) :
          /\ face_positions(vertices, faces[s][k])
                = <<UnitQuad[1], UnitQuad[2], UnitQuad[3]>>
          /\ face_positions(vertices, faces[s][l])
                = <<UnitQuad[1], UnitQuad[3], UnitQuad[4]>>
          /\ faces[s][k].face_normal = Some([num |-> <<0, 0, 1>>, den2 |-> 1])
          /\ faces[s][l].face_normal = faces[s][k].face_normal
          /\ is_none(faces[s][k].data)

\* Three positions on one line, or two or three of them equal.
on_one_line(p0, p1, p2) == cross(vsub(p1, p0), vsub(p2, p0)) = <<0, 0, 0>>

\* The first three of four positions are on one line without being all
\* equal, and the 4th is off that line.
degenerate_with_valid_4th(ps) ==
    /\ on_one_line(ps[1], ps[2], ps[3])
    /\ ~(ps[1] = ps[2] /\ ps[2] = ps[3])
    /\ ~(on_one_line(ps[1], ps[2], ps[4]) /\ on_one_line(ps[1], ps[3], ps[4]))

\* Two of the first three of four positions are equal, the 4th is off
\* their line.
coincident_with_valid_4th(ps) ==
    /\ degenerate_with_valid_4th(ps)
    /\ (ps[1] = ps[2] \/ ps[1] = ps[3] \/ ps[2] = ps[3])

\* A vector of length 1 at a right angle to the plane of the positions ps.
unit_normal_of(n, ps) ==
    /\ n.den2 > 0
    /\ n.den2 = dot(n.num, n.num)
    /\ \A j \in 2 .. Len(ps) : dot(n.num, vsub(ps[j], ps[1])) = 0

\* C26 as stated: a face4 call given two coincident points among its first
\* three and a valid 4th point stores a face of these positions, for which
\* generate_face_normals computes a non-zero unit normal.
C26_Input_Step ==
    (last'.op = "add_face4" /\ coincident_with_valid_4th(positions_of(last'.vs))) =>
        /\ ~panicked'
        /\ \E s \in DOMAIN faces' : \E k \in 1 .. Len(faces'[s]) :
              /\ face_positions(vertices', faces'[s][k]) = positions_of(last'.vs)
              /\ unit_normal_of(
                    computed_normal(vertices', faces'[s][k].vertices),
                    positions_of(last'.vs))

C26_Step ==
    /\ (EmitReturned /\ last'.geom_type # "NoNormals") =>
          \A pre \in {before_triangulate(Mesh, last'.geom_type).faces} :
              \A s \in DOMAIN faces : \A k \in 1 .. Len(faces[s]) :
                  (/\ Len(faces[s][k].vertices) = 4
                   /\ is_none(faces[s][k].face_normal)
                   /\ degenerate_with_valid_4th(
                         face_positions(vertices, faces[s][k]))) =>
                      /\ unit_normal_of(unwrap(pre[s][k].face_normal),
                                        face_positions(vertices, faces[s][k]))
                      /\ InSeq(first_triangle(pre[s][k]), faces'[s])
                      /\ InSeq(second_triangle(pre[s][k]), faces'[s])
    /\ (last'.op = "add_face4"
          /\ coincident_with_valid_4th(positions_of(last'.vs))) =>
          /\ panicked'
          /\ faces' = [t \in DOMAIN faces' |-> IF t \in DOMAIN faces
                                                THEN faces[t] ELSE <<>>]

Calculated == last.op = "calculate_vertex_normal"

\* The sum of component c of the normals of the faces of the list fs at
\* the indices given, an index counting as often as it is listed.
RECURSIVE indexed_sum(_, _, _)
indexed_sum(fs, face_indices, c) ==
    IF face_indices = <<>> THEN 0
    ELSE unwrap(fs[Head(face_indices) + 1].face_normal).num[c]
            + indexed_sum(fs, Tail(face_indices), c)

\* C27: calculate_vertex_normal returns the normalised sum of the normals
\* of the faces given, and the zero vector when that sum is zero, as it is
\* for two opposite normals and for an empty list.  The normals summed here
\* have integer components.
C27_VertexNormalOrZero ==
    Calculated =>
        LET fs == faces[last.section]
            idx == last.face_indices
            total == <<indexed_sum(fs, idx, 1), indexed_sum(fs, idx, 2),
                       indexed_sum(fs, idx, 3)>>
        IN  /\ idx = <<>> => last.result = [num |-> <<0, 0, 0>>, den2 |-> 1]
            /\ (\A k \in 1 .. Len(idx) :
                    unwrap(fs[idx[k] + 1].face_normal).den2 = 1) =>
                  last.result = IF total = <<0, 0, 0>>
                                THEN [num |-> <<0, 0, 0>>, den2 |-> 1]
                                ELSE normalize(total)

\* calculate_vertex_normal returned the zero vector for two faces of
\* opposite normals.
C27_Witness ==
    /\ Calculated
    /\ Len(last.face_indices) = 2
    /\ LET fs == faces[last.section]
           a == unwrap(fs[last.face_indices[1] + 1].face_normal)
           b == unwrap(fs[last.face_indices[2] + 1].face_normal)
       IN  /\ a.den2 = 1
           /\ b.den2 = 1
           /\ a.num # <<0, 0, 0>>
           /\ b.num = <<-a.num[1], -a.num[2], -a.num[3]>>
    /\ last.result = [num |-> <<0, 0, 0>>, den2 |-> 1]

\* The loop of triangulate over the collected quads of one section, step
\* by step: when a quad is processed its slot holds the vertex ids
\* collected for it, the quads still to be processed have lower indices and
\* are in their slots, and the last face of the list, the one swap_remove
\* moves into the slot, is not one of them.
RECURSIVE quads_in_place(_, _, _)
quads_in_place(m, section, quads) ==
    \/ quads = <<>>
    \/ LET q == Head(quads)
           fs == m.faces[section]
       IN  /\ q.i < Len(fs)
           /\ fs[q.i + 1].vertices = q.verts
           /\ \A r \in 2 .. Len(quads) :
                 /\ quads[r].i < q.i
                 /\ fs[quads[r].i + 1].vertices = quads[r].verts
                 /\ quads[r].i # Len(fs) - 1
           /\ quads_in_place(triangulate_quads(m, section, <<q>>), section,
                             Tail(quads))

\* The loop of triangulate over the sections.
RECURSIVE sections_in_place(_, _)
sections_in_place(m, secs) ==
    \/ secs = <<>>
    \/ LET section == Head(secs)
           quads == collect_quads(m.faces[section], Len(m.faces[section]))
       IN  /\ quads_in_place(m, section, quads)
           /\ sections_in_place(triangulate_quads(m, section, quads), Tail(secs))

\* C28: when triangulate processes a collected quad index i, slot i of the
\* section holds that quad, every step before removed a higher slot and
\* appended triangles, and the face swapped into the vacated slot is never
\* a quad still to be processed.
C28_Step ==
    EmitReturned =>
        \A pre \in {before_triangulate(Mesh, last'.geom_type)} :
            sections_in_place(pre, sorted_keys(DOMAIN pre.faces))

C28_ReverseOrderKeepsIndices == [][C28_Step]_vars

\* An emission triangulated a section of two quads of different vertex
\* ids: the second triangle of the later quad was swapped into slot 0 when
\* the earlier quad was processed, and the triangles of the earlier quad
\* are the last two faces.
C28_Witness ==
    /\ last.op = "emit"
    /\ ~panicked
    /\ \E s \in DOMAIN faces :
          /\ Len(faces[s]) = 4
          /\ faces[s][1].vertices[2] = faces[s][2].vertices[3]
          /\ faces[s][3].vertices[3] = faces[s][4].vertices[2]
          /\ faces[s][4].vertices[3] # faces[s][1].vertices[3]
          /\ \A k \in 1 .. 4 : Len(faces[s][k].vertices) = 3

\* The number of records a VertexNormals emission writes for the sections
\* below s: one per back-reference, three per triangle.
records_below(s) == 3 * faces_below(s)

\* C29: in a VertexNormals bundle every index is below vertex_count, and
\* the index written for vertex v of a face of section S lies in the block
\* of records of S, which starts at the number of records of the sections
\* below S, and addresses a record holding the payload of v and the normal
\* of v for section S.
C29_IndexMappingSound ==
    Emitted({"VertexNormals"}) =>
        /\ \A i \in 1 .. Len(BundleIndices) :
              BundleIndices[i] < Bundle.vertex_count
        /\ Len(BundleIndices) = 3 * total_faces(faces)
        /\ \A s \in DOMAIN faces : \A k \in 1 .. Len(faces[s]) : \A j \in 1 .. 3 :
              \A idx \in {BundleIndices[occurrence(s, k, j)]} :
                  /\ idx >= records_below(s)
                  /\ idx < records_below(s) + 3 * Len(faces[s])
                  /\ Bundle.vertex_buffer[idx + 1].data
                        = vertices[faces[s][k].vertices[j] + 1].data
                  /\ Bundle.vertex_buffer[idx + 1].normal
                        = Some(section_vertex_normal(faces[s][k].vertices[j], s))

\* A VertexNormals emission of two sections with a face each on one
\* vertex, whose indices for the first vertices of the two faces address
\* different records.
C29_Witness ==
    /\ Emitted({"VertexNormals"})
    /\ DOMAIN faces = {0, 1}
    /\ Len(faces[0]) > 0
    /\ Len(faces[1]) > 0
    /\ faces[0][1].vertices[1] = faces[1][1].vertices[1]
    /\ BundleIndices[occurrence(1, 1, 1)] >= records_below(1)
    /\ BundleIndices[occurrence(0, 1, 1)] < records_below(1)

\* add_face3 or add_face4 was called with payloads of which two have the
\* same position, hence the same vertex id, and panicked.
RejectedAdd ==
    /\ last'.op \in {"add_face3", "add_face4"}
    /\ panicked'
    /\ \E j, k \in 1 .. Len(last'.vs) :
          j # k /\ position(last'.vs[j]) = position(last'.vs[k])

\* C30: a face addition rejected for repeated vertex ids leaves the
\* position index, the next vertex id, the vertex store and the set of
\* sections as they were before the call.
C30_Step ==
    RejectedAdd =>
        /\ vertex_indices' = vertex_indices
        /\ next_index' = next_index
        /\ vertices' = vertices
        /\ DOMAIN faces' = DOMAIN faces

C30_RejectedAddLeavesMesh == [][C30_Step]_vars

\* C31: on every mesh reached by add_face3, add_face4 and remove_face
\* calls that returned, a mesh with a section emptied by remove_face
\* included, emission in each of the four modes returns a bundle: no lookup
\* of the call fails.
C31_Step ==
    (EmitStep /\ ~panicked) => (~panicked' /\ is_some(last'.result))

C31_EmissionTotal == [][C31_Step]_vars

\* The ids and payloads of the vertex entries, in id order.
vertex_payloads(vs) == [i \in 1 .. Len(vs) |-> vs[i].data]

\* C32: no operation lowers the vertex count; remove_face and the
\* triangulation of an emission leave every vertex entry at its id with its
\* payload, and the position index and the next id as they were, also for
\* a vertex whose back-reference list became empty; a NoNormals emission
\* writes a record for every entry, those without a face included.
C32_Step ==
    /\ Len(vertices') >= Len(vertices)
    /\ (last'.op \in {"remove_face", "emit"} /\ ~panicked) =>
          /\ vertex_payloads(vertices') = vertex_payloads(vertices)
          /\ vertex_indices' = vertex_indices
          /\ next_index' = next_index

C32_EmittedInNoNormals ==
    Emitted({"NoNormals"}) =>
        /\ Bundle.vertex_count = Len(vertices)
        /\ \A i \in 1 .. Len(vertices) :
              Bundle.vertex_buffer[i].data = vertices[i].data

moved_by_set_vertex(v) ==
    /\ last.op = "set_vertex"
    /\ last.vertex_idx = v
    /\ is_some(last.old)
    /\ position(unwrap(last.old)) # position(last.data)

\* C33: normals are computed per emission from the current geometry: when
\* set_vertex changed the position of a vertex after an emission with
\* normals, the next emission with normals leaves, and FaceNormals mode
\* writes, for every face that contains the vertex and was added without an
\* explicit normal, the normal computed from the current positions.  The
\* faces here are added without explicit normal; those that have a normal
\* got it from an emission and are triangles.
C33_Step ==
    (EmitReturned /\ last'.geom_type # "NoNormals") =>
        \A s \in DOMAIN faces : \A k \in 1 .. Len(faces[s]) :
            \A v \in {x \in 0 .. Len(vertices) - 1 :
                        InSeq(x, faces[s][k].vertices)} :
                (moved_by_set_vertex(v) /\ is_some(faces[s][k].face_normal)) =>
                    /\ faces'[s][k].vertices = faces[s][k].vertices
                    /\ faces'[s][k].face_normal =
                          Some(computed_normal(vertices', faces'[s][k].vertices))
                    /\ last'.geom_type = "FaceNormals" =>
                          \A j \in 1 .. 3 :
                              unwrap(last'.result).vertex_buffer[
                                  occurrence(s, k, j)].normal
                                = Some(computed_normal(vertices',
                                                       faces'[s][k].vertices))

C33_NormalsFromCurrentGeometry == [][C33_Step]_vars

\* The mesh was built by add_face calls only: every call so far added one
\* face, and the faces hold as many vertices as positions were given.
RECURSIVE vertex_slots(_)
vertex_slots(fs) ==
    IF fs = <<>> THEN 0
    ELSE Len(Head(fs).face.vertices) + vertex_slots(Tail(fs))

BuiltByAddsOnly ==
    /\ ~panicked
    /\ ops = total_faces(faces)
    /\ Len(inputs) = vertex_slots(faces_in_order(Mesh, sorted_keys(DOMAIN faces)))

\* The mesh after the step, as a record.
MeshAfter == [vertices |-> vertices', faces |-> faces',
              next_index |-> next_index', vertex_indices |-> vertex_indices',
              panicked |-> panicked']

NormalsOf(m) ==
    [s \in DOMAIN m.faces |->
        [k \in 1 .. Len(m.faces[s]) |->
            [vertices |-> m.faces[s][k].vertices,
             face_normal |-> m.faces[s][k].face_normal]]]

\* C34: emission does not depend on emission history: of two copies of a
\* mesh built by the same add_face calls, the one emitted in NoNormals mode
\* first carries, after a FaceNormals or VertexNormals emission, the same
\* face normal on every triangle as the one emitted in that mode directly.
C34_Step ==
    (BuiltByAddsOnly /\ EmitReturned /\ last'.geom_type = "NoNormals") =>
        \A geom_type \in {"FaceNormals", "VertexNormals"} :
            NormalsOf(to_renderable_buffer_by_type(MeshAfter, geom_type))
                = NormalsOf(to_renderable_buffer_by_type(Mesh, geom_type))

C34_EmissionHistoryIndependent == [][C34_Step]_vars

\* A step on which to_buffered_geometry returns.
ToBufferedGeometryReturned == call.pc = "loop" /\ call'.pc = "idle"

\* Every attribute of the data holds n values.
holds_values(data, n) ==
    \A k \in DOMAIN data.attributes :
        Len(data.attributes[k].values.items) = n

\* The byte sizes of the formats of the attributes with an index below k,
\* summed.
bytes_below(data, k) ==
    LET RECURSIVE sum(_)
        sum(S) == IF S = {} THEN 0
                  ELSE LET j == CHOOSE x \in S : TRUE
                       IN  byte_size(data.attributes[j].index.format)
                               + sum(S \ {j})
    IN  sum({j \in DOMAIN data.attributes : j < k})

\* The bytes of the records 0 .. n - 1, each made of the bytes of every
\* attribute with a key of ks, in their order.
RECURSIVE record_of(_, _, _)
record_of(data, ks, k) ==
    IF ks = <<>> THEN <<>>
    ELSE unwrap(get_bytes_at(data.attributes[ks[1]].values, k))
             \o record_of(data, Tail(ks), k)

RECURSIVE whole_records(_, _)
whole_records(data, n) ==
    IF n = 0 THEN <<>>
    ELSE whole_records(data, n - 1)
             \o record_of(data, sorted_keys(DOMAIN data.attributes), n - 1)

\* C35: when to_buffered_geometry returns for data without indices whose
\* attributes all hold n values, vertex_count is n and vertex_count times
\* vertex_size is the length of the buffer; the offset of every attribute
\* in the layout is the sum of the byte sizes of the attributes with a
\* lower index, and vertex_size is the sum of all byte sizes.
C35_Step ==
    (ToBufferedGeometryReturned /\ is_none(geometry_data.indices)) =>
        \A n \in 0 .. MaxOps :
            holds_values(geometry_data, n) =>
                LET geometry == unwrap(last'.result)
                    ks == sorted_keys(DOMAIN geometry_data.attributes)
                IN  /\ geometry.vertex_count = n
                    /\ geometry.vertex_count * geometry.vertex_size
                           = Len(geometry.buffer)
                    /\ Len(geometry.vertex_layout) = Len(ks)
                    /\ \A i \in 1 .. Len(ks) :
                           geometry.vertex_layout[i].offset
                               = bytes_below(geometry_data, ks[i])
                    /\ geometry.vertex_size
                           = bytes_below(geometry_data, Len(ks) + MaxOps)

C35_CountAndLayout == [][C35_Step]_vars

\* C36: to_buffered_geometry never returns for data of which two
\* attributes hold different numbers of values, whichever index holds
\* more, and a buffer it returns is made of whole records: the bytes of
\* every attribute for each vertex.
C36_Step ==
    ToBufferedGeometryReturned =>
        /\ \E n \in 0 .. MaxOps : holds_values(geometry_data, n)
        /\ \E n \in 0 .. MaxOps :
               unwrap(last'.result).buffer = whole_records(geometry_data, n)

C36_UnequalLengthsPanic == [][C36_Step]_vars

\* C37: every call of to_buffered_geometry leaves its while loop, whatever
\* the attributes, none included.
C37_Terminates == (call.pc = "loop") ~> (call.pc # "loop")

\* A step of Layer::new or Layer::resize, the layer it is about after the
\* step, and whether the size it was given has a zero.
LayerSized == ops' = ops + 1 /\ last'.op \in {"layer_new", "layer_resize"}

sized_layer == painter'.layers[last'.layer + 1]

zero_requested == last'.width = 0 \/ last'.height = 0

\* C38: after Layer::new and after Layer::resize the layer's
\* use_window_size is true exactly when the size asked for had a zero
\* width or height, and its stored size is the window's in that case and
\* the size asked for otherwise; a resize that changes the stored size
\* clears the cached target uniforms, and a resize to the stored size
\* leaves the textures and the cached uniforms as they are.
C38_Step ==
    LayerSized =>
        /\ sized_layer.use_window_size = zero_requested
        /\ sized_layer.width = IF zero_requested THEN painter.config.width
                               ELSE last'.width
        /\ sized_layer.height = IF zero_requested THEN painter.config.height
                                ELSE last'.height
        /\ last'.op = "layer_resize" =>
            LET stored == painter.layers[last'.layer + 1]
            IN  IF stored.width # sized_layer.width
                       \/ stored.height # sized_layer.height
                THEN sized_layer.target_uniforms = <<>>
                ELSE /\ painter'.textures = painter.textures
                     /\ sized_layer.target_uniforms = stored.target_uniforms

C38_LayerFollowsRequestedSize == [][C38_Step]_vars

====
